---- MODULE Spec2Model ----
(***************************************************************************)
(* Model of the English <-> Igala word-substitution translator and its     *)
(* back-translation quality assessment (src/model.py).                     *)
(*                                                                         *)
(* Representation                                                          *)
(*   - a Python str is a sequence of one-character strings;                *)
(*   - a Python dict is a sequence of <<key, value>> pairs in insertion    *)
(*     order, keys unique;                                                 *)
(*   - a percentage rounded to two decimals is an integer number of        *)
(*     hundredths (50.0 is 5000, 33.33 is 3333);                           *)
(*   - the 'timestamp' fields (datetime.now()) are left out of results.    *)
(***************************************************************************)
EXTENDS Integers, Sequences, FiniteSets, TLC

\* csv     : the rows of the parallel corpus file as pd.read_csv delivers them
\* english_to_igala, igala_to_english : the two dictionaries of the model object
\* call    : the method call in progress with its arguments, or the request
\*           that is being answered; Idle between calls
\* result  : the value the call in progress returns, or the response to the
\*           request
\* lookups : the number of dictionary lookups ('in', .get) the call performed
\* history : the rows of the 'translations' table, in insertion order
\* _model_instance : the module global of that name, None or an object's id
\* objects : the TranslationModel objects allocated so far; an object's id is
\*           its position, its fields are the attributes assigned so far
\* threads : for each request thread, its position in get_model(), the
\*           object it is constructing and the instance get_model() returned;
\*           the request its handler is serving (request, Idle when none),
\*           the response the handler has built from the model's results
\*           (response, lookups), the rows it inserts into the
\*           'translations' table before it returns (rows), how many of
\*           them it has inserted already (saved), and the number of rows
\*           the table held when the request arrived (first)
VARIABLES csv, english_to_igala, igala_to_english, call, result, lookups, history,
          _model_instance, objects, threads

\* the state of the get_model() singleton
process == <<_model_instance, objects, threads>>

vars == <<csv, english_to_igala, igala_to_english, call, result, lookups, history,
          _model_instance, objects, threads>>

(***************************************************************************)
(* Bounds on the enumerated inputs.                                        *)
(***************************************************************************)
MaxLen == 3

MaxScoreLen == 3

MaxPartialLen == 2

MaxLimit == 2

MaxRows == 3

MaxHttpBatch == 2

MaxHistory == 3

MaxBatch == 3

\* request threads that call get_model() concurrently
MaxThreads == 2

(***************************************************************************)
(* Characters.                                                             *)
(***************************************************************************)
Whitespace == {" ", "\t"}

Chars == {"a", "A", "b", "B", " ", "\t"}

ScoreChars == {"a", "A", "b", " "}

Directions == {"en_to_ig", "ig_to_en", "auto"}

SeqsUpTo(S, n) == UNION {[1..k -> S] : k \in 0..n}

Texts == SeqsUpTo(Chars, MaxLen)

ScoreTexts == SeqsUpTo(ScoreChars, MaxScoreLen)

\* the texts a batch is made of: blank ones, one word, two words, an unknown word
BatchItems == {<<>>, <<"\t">>, <<"a">>, <<"b">>, <<"A", " ", "b">>, <<"b", "b">>}

BatchTexts == SeqsUpTo(BatchItems, MaxBatch)

PartialChars == {"a", "b", "B"}

Partials == SeqsUpTo(PartialChars, MaxPartialLen)

\* 'english' selects the forward keys, any other value the inverse keys
Languages == {"english", "igala", "other"}

Limits == -1..MaxLimit

\* the texts of a batch request: an empty one and a two-word one
HttpItems == {<<>>, <<"A", " ", "b">>}

\* a JSON value of the request body, tagged with its Python type
Json(type, value) == [type |-> type, value |-> value]

\* data.get('texts', []): a list of strings, or a caller's bare string
HttpTexts ==
    {Json("list", texts) : texts \in SeqsUpTo(HttpItems, MaxHttpBatch)}
        \cup {Json("str", <<"a">>)}

\* the texts of a quality request: missing, blank, one word, two words
HttpQualityTexts == {<<>>, <<" ">>, <<"a">>, <<"b", "a">>, <<"A", " ", "b">>}

\* the texts of a back translation request: missing, blank, two words
HttpBackTexts == HttpItems \cup {<<" ">>}

HttpDirections == {"en_to_ig", "ig_to_en"}

\* data.get('source_direction', 'en_to_ig') of a back translation request
\* that names no direction
HttpSourceDirections == {"en_to_ig"}

\* data.get('user_id', 'anonymous')
HttpUsers == {"anonymous", "test_user_123"}

\* data.get('session_id'): None when the request names no session
HttpSessions == {Json("NoneType", "None"), Json("str", "test_session_abc")}

\* who sends the requests: a client that names neither a user nor a session,
\* and a client that names both
HttpClients ==
    {client \in [user_id : HttpUsers, session_id : HttpSessions] :
        client.user_id = "anonymous" <=> client.session_id.type = "NoneType"}

SetMin(S) == CHOOSE x \in S : \A y \in S : x <= y

SetMax(S) == CHOOSE x \in S : \A y \in S : x >= y

(***************************************************************************)
(* Python str methods used by the source.                                  *)
(***************************************************************************)
lower_char(c) ==
    IF c = "A" THEN "a" ELSE IF c = "B" THEN "b" ELSE IF c = "N" THEN "n" ELSE c

\* str.lower()
lower(s) == [i \in 1..Len(s) |-> lower_char(s[i])]

\* str.strip()
strip(s) ==
    LET keep == {i \in 1..Len(s) : s[i] \notin Whitespace}
    IN  IF keep = {} THEN <<>> ELSE SubSeq(s, SetMin(keep), SetMax(keep))

RECURSIVE split_scan(_, _, _, _)
split_scan(s, i, cur, acc) ==
    IF i > Len(s)
    THEN IF cur = <<>> THEN acc ELSE Append(acc, cur)
    ELSE IF s[i] \in Whitespace
         THEN split_scan(s, i + 1, <<>>, IF cur = <<>> THEN acc ELSE Append(acc, cur))
         ELSE split_scan(s, i + 1, Append(cur, s[i]), acc)

\* str.split() without arguments: runs of whitespace separate, no empty tokens
split(s) == split_scan(s, 1, <<>>, <<>>)

RECURSIVE join(_)
\* ' '.join(words)
join(words) ==
    IF Len(words) = 0 THEN <<>>
    ELSE IF Len(words) = 1 THEN words[1]
    ELSE words[1] \o <<" ">> \o join(Tail(words))

\* set(list)
seq_to_set(words) == {words[i] : i \in 1..Len(words)}

(***************************************************************************)
(* Python dict: insertion-ordered sequence of <<key, value>> pairs.        *)
(***************************************************************************)
\* key in d
dict_has(d, k) == \E i \in 1..Len(d) : d[i][1] = k

\* d.get(k, default) as it would be if a miss gave the empty string
dict_get_or_empty(d, k, default) ==
    IF dict_has(d, k) THEN d[CHOOSE i \in 1..Len(d) : d[i][1] = k][2] ELSE <<>>

\* d.get(k, default)
dict_get(d, k, default) ==
    IF dict_has(d, k) THEN d[CHOOSE i \in 1..Len(d) : d[i][1] = k][2] ELSE default

\* d[k] = v : an existing key keeps its position and takes the new value
dict_put(d, k, v) ==
    IF dict_has(d, k)
    THEN [i \in 1..Len(d) |-> IF d[i][1] = k THEN <<k, v>> ELSE d[i]]
    ELSE Append(d, <<k, v>>)

RECURSIVE dict_from_items(_, _)
\* dict(items) : insert the pairs in order
dict_from_items(items, d) ==
    IF items = <<>> THEN d
    ELSE dict_from_items(Tail(items), dict_put(d, items[1][1], items[1][2]))

(***************************************************************************)
(* The parallel corpus (pd.read_csv) and the dictionary construction.      *)
(* A row has the cells English, Igala and POS; a cell is a string or NaN   *)
(* (an empty CSV cell).                                                    *)
(***************************************************************************)
NaN == <<"<NaN>">>

\* str(word) of a cell: the text itself, 'nan' for a missing cell
str(cell) == IF cell = NaN THEN <<"n", "a", "n">> ELSE cell

lower_case_words(word) == lower(strip(str(word)))

remove_spaces(word) == strip(str(word))

Row(e, i, p) == [English |-> e, Igala |-> i, POS |-> p]

\* DataFrame.dropna(): drop the rows that hold NaN in any column
dropna(rows) == SelectSeq(rows, LAMBDA r : r.English # NaN /\ r.Igala # NaN /\ r.POS # NaN)

RECURSIVE drop_duplicates_from(_, _)
drop_duplicates_from(rows, acc) ==
    IF rows = <<>> THEN acc
    ELSE drop_duplicates_from(Tail(rows),
            IF \E j \in 1..Len(acc) : acc[j] = rows[1] THEN acc ELSE Append(acc, rows[1]))

\* DataFrame.drop_duplicates(): keep the first occurrence of each whole row
drop_duplicates(rows) == drop_duplicates_from(rows, <<>>)

_preprocess_data(rows) ==
    LET applied == [n \in 1..Len(rows) |->
                      Row(lower_case_words(rows[n].English),
                          remove_spaces(rows[n].Igala),
                          rows[n].POS)]
    IN  drop_duplicates(dropna(applied))

\* set_index('English')['Igala'].to_dict() as it would be if the first row of
\* a key were kept
build_english_to_igala_first(data) ==
    LET firsts == SelectSeq([n \in 1..Len(data) |-> <<n, data[n]>>],
                            LAMBDA p : \A m \in 1..(p[1] - 1) : data[m].English # p[2].English)
    IN  [n \in 1..Len(firsts) |-> <<firsts[n][2].English, firsts[n][2].Igala>>]

build_english_to_igala(data) ==
    dict_from_items([n \in 1..Len(data) |-> <<data[n].English, data[n].Igala>>], <<>>)

\* the inverse comprehension as it would be if the first key of a value were kept
build_igala_to_english_first(e2i) ==
    LET firsts == SelectSeq([n \in 1..Len(e2i) |-> <<n, e2i[n]>>],
                            LAMBDA p : \A m \in 1..(p[1] - 1) : e2i[m][2] # p[2][2])
    IN  [n \in 1..Len(firsts) |-> <<firsts[n][2][2], firsts[n][2][1]>>]

build_igala_to_english(e2i) ==
    dict_from_items([n \in 1..Len(e2i) |-> <<e2i[n][2], e2i[n][1]>>], <<>>)

CorpusManyToOne ==
    << Row(<<" ", "A">>, <<"b", "a">>, <<"n">>),
       Row(<<"b">>, <<"b", "a">>, <<"n">>),
       Row(<<"a", "b">>, <<"B">>, <<"n">>) >>

CorpusPhrase ==
    << Row(<<"a">>, <<"b", " ", "a">>, <<"n">>),
       Row(<<"b">>, NaN, <<"n">>),
       Row(NaN, <<"a">>, <<"n">>),
       Row(<<"b", "b">>, <<"a", "a">>, NaN) >>

CorpusDuplicates ==
    << Row(<<"a">>, <<"a">>, <<"n">>),
       Row(<<"A", " ">>, <<"b">>, <<"n">>),
       Row(<<"a">>, <<"a">>, <<"n">>),
       Row(<<"b">>, <<" ">>, <<"n">>) >>

CorpusEmpty == << >>

Corpora == {CorpusManyToOne, CorpusPhrase, CorpusDuplicates, CorpusEmpty}

\* the rows a corpus file is made of: plain rows, rows that differ by case and
\* padding only, rows with an empty cell (NaN) and rows with a blank cell
CsvRows ==
    { Row(<<"a">>, <<"a">>, <<"n">>),
      Row(<<"A", " ">>, <<"b">>, <<"n">>),
      Row(<<" ", "A">>, <<" ", "a">>, <<"n">>),
      Row(<<"b">>, <<"a">>, <<"n">>),
      Row(<<"b">>, <<"B">>, NaN),
      Row(NaN, <<"b">>, <<"n">>),
      Row(<<"b">>, NaN, <<"n">>),
      Row(<<" ">>, <<"B">>, <<"n">>),
      Row(<<"a", "b">>, <<"\t">>, <<"n">>) }

CsvFiles == SeqsUpTo(CsvRows, MaxRows)

(***************************************************************************)
(* Floats.  The source computes with IEEE-754 doubles (Python float); a    *)
(* double is carried as its 53-bit significand and its exponent, and every *)
(* operation rounds its exact result to the nearest double, ties to the    *)
(* even significand.  A significand and the exact results in between are   *)
(* natural numbers of any size, kept as sequences of limbs in base 2^15,   *)
(* least significant limb first, no high zero limb.                        *)
(***************************************************************************)
LimbBase == 2 ^ 15

RECURSIVE limbs_of(_)
\* the limbs of a natural number
limbs_of(n) == IF n = 0 THEN <<>> ELSE <<n % LimbBase>> \o limbs_of(n \div LimbBase)

RECURSIVE limbs_strip(_)
\* drop high zero limbs
limbs_strip(x) ==
    IF x # <<>> /\ x[Len(x)] = 0 THEN limbs_strip(SubSeq(x, 1, Len(x) - 1)) ELSE x

RECURSIVE limbs_add_carry(_, _, _)
limbs_add_carry(x, y, carry) ==
    IF x = <<>> /\ y = <<>> THEN limbs_of(carry)
    ELSE LET a == IF x = <<>> THEN 0 ELSE x[1]
             b == IF y = <<>> THEN 0 ELSE y[1]
             v == a + b + carry
         IN  <<v % LimbBase>>
                 \o limbs_add_carry(IF x = <<>> THEN x ELSE Tail(x),
                                    IF y = <<>> THEN y ELSE Tail(y), v \div LimbBase)

\* x + y
limbs_add(x, y) == limbs_add_carry(x, y, 0)

RECURSIVE limbs_mul_small_carry(_, _, _)
limbs_mul_small_carry(x, k, carry) ==
    IF x = <<>> THEN limbs_of(carry)
    ELSE LET v == x[1] * k + carry
         IN  <<v % LimbBase>> \o limbs_mul_small_carry(Tail(x), k, v \div LimbBase)

\* x * k for 0 <= k < 2^15
limbs_mul_small(x, k) == limbs_strip(limbs_mul_small_carry(x, k, 0))

RECURSIVE limbs_mul(_, _)
\* x * y
limbs_mul(x, y) ==
    IF x = <<>> \/ y = <<>> THEN <<>>
    ELSE LET high == limbs_mul(x, Tail(y))
         IN  limbs_add(limbs_mul_small(x, y[1]), IF high = <<>> THEN high ELSE <<0>> \o high)

RECURSIVE limbs_divmod_small(_, _)
\* quotient (high zero limbs kept) and remainder of x by d, 0 < d < 2^15
limbs_divmod_small(x, d) ==
    IF x = <<>> THEN [q |-> <<>>, r |-> 0]
    ELSE LET high == limbs_divmod_small(Tail(x), d)
             v == high.r * LimbBase + x[1]
         IN  [q |-> <<v \div d>> \o high.q, r |-> v % d]

RECURSIVE bit_length_small(_)
bit_length_small(n) == IF n = 0 THEN 0 ELSE 1 + bit_length_small(n \div 2)

\* the number of bits of x
bit_length(x) == IF x = <<>> THEN 0 ELSE 15 * (Len(x) - 1) + bit_length_small(x[Len(x)])

\* x * 2^s
limbs_shift_left(x, s) ==
    IF x = <<>> THEN x
    ELSE [i \in 1..(s \div 15) |-> 0] \o limbs_mul_small(x, 2 ^ (s % 15))

RECURSIVE limbs_cmp(_, _)
\* -1, 0, 1 as x is below, equal to, above y
limbs_cmp(x, y) ==
    IF Len(x) # Len(y) THEN (IF Len(x) < Len(y) THEN -1 ELSE 1)
    ELSE IF x = <<>> THEN 0
    ELSE IF x[Len(x)] # y[Len(y)] THEN (IF x[Len(x)] < y[Len(y)] THEN -1 ELSE 1)
    ELSE limbs_cmp(SubSeq(x, 1, Len(x) - 1), SubSeq(y, 1, Len(y) - 1))

\* the double m * 2^e: m = 0, or 2^52 <= m < 2^53
Double(m, e) == [m |-> m, e |-> e]

\* a significand that rounding has carried to 2^53 is 2^52 with the next exponent
double_normal(m, e) ==
    IF bit_length(m) = 54 THEN Double(<<0, 0, 0, 128>>, e + 1) ELSE Double(m, e)

\* m * 2^e plus a remainder below one unit of m: 'half' is the first limb of
\* the remainder, 'inexact' tells whether anything follows it; round to
\* nearest, ties to the even significand
double_nearest(m, half, inexact, e) ==
    double_normal(IF \/ half > 16384
                     \/ half = 16384 /\ (inexact \/ m[1] % 2 = 1)
                  THEN limbs_add(m, <<1>>)
                  ELSE m,
                  e)

\* split 'aligned' into the 53 bits of the significand and the 'drop' limbs
\* below them
double_split(aligned, drop, inexact, e) ==
    double_nearest(SubSeq(aligned, drop + 1, Len(aligned)),
                   aligned[drop],
                   inexact \/ \E i \in 1..(drop - 1) : aligned[i] # 0,
                   e)

\* shift the quotient so that the s bits below the significand fill whole limbs
double_align(quotient, s, inexact, e) ==
    double_split(IF s % 15 = 0 THEN quotient
                 ELSE limbs_mul_small(quotient, 2 ^ (15 - (s % 15))),
                 IF s % 15 = 0 THEN s \div 15 ELSE s \div 15 + 1,
                 inexact,
                 e + s)

\* the double nearest to quotient * 2^e, the quotient of more than 53 bits
double_round(quotient, inexact, e) ==
    double_align(quotient, bit_length(quotient) - 53, inexact, e)

\* the division n * 2^75 / d, which leaves at least 60 bits of quotient
double_scaled(scaled, e) == double_round(limbs_strip(scaled.q), scaled.r # 0, e - 75)

\* the double nearest to (n / d) * 2^e, ties to even; n in limbs, 0 < d < 2^15
round_to_double(n, d, e) ==
    IF n = <<>> THEN Double(<<>>, 0)
    ELSE double_scaled(limbs_divmod_small(<<0, 0, 0, 0, 0>> \o n, d), e)

\* float(n / d) for integers n >= 0, d > 0: an int / int division, a decimal
\* literal, or the float that round(x, 2) returns for n hundredths (d = 100)
double_of(n, d) == round_to_double(limbs_of(n), d, 0)

\* x * y
double_mul(x, y) == round_to_double(limbs_mul(x.m, y.m), 1, x.e + y.e)

\* x + y
double_add(x, y) ==
    IF x.m = <<>> THEN y
    ELSE IF y.m = <<>> THEN x
    ELSE LET e == IF x.e < y.e THEN x.e ELSE y.e
         IN  round_to_double(limbs_add(limbs_shift_left(x.m, x.e - e),
                                       limbs_shift_left(y.m, y.e - e)), 1, e)

\* x / n for an integer 0 < n < 2^15
double_div(x, n) == round_to_double(x.m, n, x.e)

\* -1, 0, 1 as the double x is below, equal to, above the rational n / d
double_cmp(x, n, d) ==
    IF x.e <= 0
    THEN limbs_cmp(limbs_mul_small(x.m, d), limbs_shift_left(limbs_of(n), -x.e))
    ELSE limbs_cmp(limbs_shift_left(limbs_mul_small(x.m, d), x.e), limbs_of(n))

(***************************************************************************)
(* Numbers.  A float that the source rounds to two decimals is carried as  *)
(* an integer number of hundredths.  The unrounded weighted sum of         *)
(* _assess_translation_quality is carried as its exact value in            *)
(* thousandths (milli) together with the sign of the error of its double   *)
(* evaluation (err: -1 the double lies below the exact value, 0 it is the  *)
(* exact value, 1 it lies above).  The error of a double is far smaller    *)
(* than a thousandth, so it decides a rounding or a comparison only where  *)
(* the exact value is a tie or a threshold.                                *)
(***************************************************************************)
\* round(n / d, 0) as Python rounds: to nearest, ties to even
round_half_even(n, d) ==
    LET q == n \div d
        r == n % d
    IN  IF 2 * r > d \/ (2 * r = d /\ q % 2 = 1) THEN q + 1 ELSE q

\* (found / total) * 100
percent(found, total) == double_mul(double_of(found, total), double_of(100, 1))

\* round((found / total) * 100, 2), in hundredths: at a decimal tie the
\* double is rounded to the side it lies on
round_percent(found, total) ==
    LET q == (found * 10000) \div total
        r == (found * 10000) % total
        err == double_cmp(percent(found, total), found * 100, total)
    IN  IF 2 * r > total THEN q + 1
        ELSE IF 2 * r < total THEN q
        ELSE IF err > 0 THEN q + 1
        ELSE IF err < 0 THEN q
        ELSE round_half_even(found * 10000, total)

Float(milli, err) == [milli |-> milli, err |-> err]

\* x >= threshold, threshold a whole number of percent
float_ge(x, threshold) ==
    x.milli > threshold * 1000 \/ (x.milli = threshold * 1000 /\ x.err >= 0)

\* x < threshold
float_lt(x, threshold) == ~float_ge(x, threshold)

\* round(x, 2) as it would be if the third decimal were cut off
round2_truncate(x) == x.milli \div 10

\* round(x, 2), in hundredths: the double nearest to a decimal tie is
\* rounded to the side it lies on
round2(x) ==
    LET q == x.milli \div 10
        r == x.milli % 10
    IN  IF r > 5 THEN q + 1
        ELSE IF r < 5 THEN q
        ELSE IF x.err > 0 THEN q + 1
        ELSE IF x.err < 0 THEN q
        ELSE round_half_even(x.milli, 10)

\* forward_conf * confidence_weight + back_conf * back_confidence_weight
\*   + similarity * similarity_weight, the arguments in hundredths
weighted_sum(forward_conf, back_conf, similarity) ==
    double_add(double_add(double_mul(double_of(forward_conf, 100), double_of(4, 10)),
                          double_mul(double_of(back_conf, 100), double_of(3, 10))),
               double_mul(double_of(similarity, 100), double_of(3, 10)))

\* the sign of the error of the double weighted sum
weighted_sum_err(forward_conf, back_conf, similarity) ==
    double_cmp(weighted_sum(forward_conf, back_conf, similarity),
               forward_conf * 4 + back_conf * 3 + similarity * 3, 1000)

(***************************************************************************)
(* TranslationModel methods.                                               *)
(***************************************************************************)
select_dictionary(direction) ==
    IF direction = "en_to_ig" THEN english_to_igala ELSE igala_to_english

\* calculate_confidence as it would be if it counted the translated words
calculate_confidence_of_translated(text, translated_text, direction) ==
    LET words == split(lower(translated_text))
        dictionary == select_dictionary(direction)
        found_words == Cardinality({i \in 1..Len(words) : dict_has(dictionary, words[i])})
        total_words == Len(words)
    IN  IF total_words = 0 THEN 0 ELSE round_percent(found_words, total_words)

calculate_confidence(text, translated_text, direction) ==
    LET words == split(lower(text))
        dictionary == select_dictionary(direction)
        found_words == Cardinality({i \in 1..Len(words) : dict_has(dictionary, words[i])})
        total_words == Len(words)
    IN  IF total_words = 0 THEN 0 ELSE round_percent(found_words, total_words)

\* 'not text or not text.strip()'
is_blank(text) == text = <<>> \/ strip(text) = <<>>

\* calculate_back_translation_score as it would be if the original words were
\* counted as a list, duplicates included
calculate_back_translation_score_list(original, back_translated) ==
    LET original_list == split(lower(original))
        original_words == seq_to_set(original_list)
        back_words == seq_to_set(split(lower(back_translated)))
        overlap == original_words \cap back_words
    IN  IF original_words = {}
        THEN [similarity_score |-> 0,
              word_overlap |-> 0,
              total_original_words |-> 0,
              preservation_rate |-> 0]
        ELSE [similarity_score |-> round_percent(Cardinality(overlap), Len(original_list)),
              word_overlap |-> Cardinality(overlap),
              total_original_words |-> Len(original_list),
              preservation_rate |-> round_percent(Cardinality(overlap), Len(original_list)),
              overlapping_words |-> overlap]

calculate_back_translation_score(original, back_translated) ==
    LET original_words == seq_to_set(split(lower(original)))
        back_words == seq_to_set(split(lower(back_translated)))
        overlap == original_words \cap back_words
    IN  IF original_words = {}
        THEN [similarity_score |-> 0,
              word_overlap |-> 0,
              total_original_words |-> 0,
              preservation_rate |-> 0]
        ELSE [similarity_score |-> round_percent(Cardinality(overlap), Cardinality(original_words)),
              word_overlap |-> Cardinality(overlap),
              total_original_words |-> Cardinality(original_words),
              preservation_rate |-> round_percent(Cardinality(overlap), Cardinality(original_words)),
              overlapping_words |-> overlap]

\* translate_single as it would be if the words were split without lower-casing
translate_single_no_lower(text, direction) ==
    IF is_blank(text)
    THEN [original |-> text, translated |-> <<>>, confidence |-> 0, direction |-> direction]
    ELSE LET dictionary == select_dictionary(direction)
             words == split(text)
             translated_words == [i \in 1..Len(words) |-> dict_get(dictionary, words[i], words[i])]
             translated_text == join(translated_words)
         IN  [original |-> text,
              translated |-> translated_text,
              confidence |-> calculate_confidence(text, translated_text, direction),
              direction |-> direction]

\* translate_single as it would be if the early return echoed the input
translate_single_blank_echo(text, direction) ==
    IF is_blank(text)
    THEN [original |-> text, translated |-> text, confidence |-> 0, direction |-> direction]
    ELSE LET dictionary == select_dictionary(direction)
             words == split(lower(text))
             translated_words == [i \in 1..Len(words) |-> dict_get(dictionary, words[i], words[i])]
             translated_text == join(translated_words)
         IN  [original |-> text,
              translated |-> translated_text,
              confidence |-> calculate_confidence(text, translated_text, direction),
              direction |-> direction]

translate_single(text, direction) ==
    IF is_blank(text)
    THEN [original |-> text,
          translated |-> <<>>,
          confidence |-> 0,
          direction |-> direction]
    ELSE LET dictionary == select_dictionary(direction)
             words == split(lower(text))
             translated_words == [i \in 1..Len(words) |-> dict_get(dictionary, words[i], words[i])]
             translated_text == join(translated_words)
         IN  [original |-> text,
              translated |-> translated_text,
              confidence |-> calculate_confidence(text, translated_text, direction),
              direction |-> direction]

\* number of dictionary lookups translate_single performs: one .get per word
\* and one 'in' per word inside calculate_confidence, none on the early return
translate_single_lookups(text) ==
    IF is_blank(text) THEN 0 ELSE 2 * Len(split(lower(text)))

\* _get_quality_recommendations as it would be with an if/elif chain: only the
\* first triggered rule reports
_get_quality_recommendations_elif(overall, forward, back, similarity) ==
    IF forward < 7000
    THEN <<"Consider reviewing the forward translation - low dictionary coverage">>
    ELSE IF back < 7000
    THEN <<"Back translation has low confidence - may indicate translation issues">>
    ELSE IF similarity < 5000
    THEN <<"Low similarity between original and back-translated text - meaning may be lost">>
    ELSE IF float_lt(overall, 60)
    THEN <<"Overall quality is below acceptable threshold - manual review recommended">>
    ELSE <<"Translation quality is good - no immediate concerns">>

_get_quality_recommendations(overall, forward, back, similarity) ==
    LET r1 == IF forward < 7000
              THEN <<"Consider reviewing the forward translation - low dictionary coverage">>
              ELSE <<>>
        r2 == IF back < 7000
              THEN <<"Back translation has low confidence - may indicate translation issues">>
              ELSE <<>>
        r3 == IF similarity < 5000
              THEN <<"Low similarity between original and back-translated text - meaning may be lost">>
              ELSE <<>>
        r4 == IF float_lt(overall, 60)
              THEN <<"Overall quality is below acceptable threshold - manual review recommended">>
              ELSE <<>>
        recommendations == r1 \o r2 \o r3 \o r4
    IN  IF recommendations = <<>>
        THEN <<"Translation quality is good - no immediate concerns">>
        ELSE recommendations

quality_level_of(overall_score) ==
    IF float_ge(overall_score, 80) THEN "Excellent"
    ELSE IF float_ge(overall_score, 60) THEN "Good"
    ELSE IF float_ge(overall_score, 40) THEN "Fair"
    ELSE "Poor"

quality_description_of(level) ==
    IF level = "Excellent" THEN "High-quality translation with good preservation of meaning"
    ELSE IF level = "Good" THEN "Acceptable translation with minor meaning loss"
    ELSE IF level = "Fair" THEN "Translation may have some meaning distortion"
    ELSE "Translation quality is low, manual review recommended"

\* the dictionary as it would be if the recommendations were derived from the
\* rounded score
overall_quality_of_rounded(overall_score, quality_level, forward_conf, back_conf, similarity) ==
    [overall_score |-> round2(overall_score),
     quality_level |-> quality_level,
     quality_description |-> quality_description_of(quality_level),
     recommendations |-> _get_quality_recommendations(
                             Float(round2(overall_score) * 10, 0), forward_conf,
                             back_conf, similarity)]

\* the dictionary _assess_translation_quality returns, from the unrounded
\* overall_score and its quality_level
overall_quality_of(overall_score, quality_level, forward_conf, back_conf, similarity) ==
    [overall_score |-> round2(overall_score),
     quality_level |-> quality_level,
     quality_description |-> quality_description_of(quality_level),
     recommendations |-> _get_quality_recommendations(overall_score, forward_conf,
                                                      back_conf, similarity)]

\* the quality level is determined from the unrounded overall_score
overall_quality_at(overall_score, forward_conf, back_conf, similarity) ==
    overall_quality_of(overall_score, quality_level_of(overall_score),
                       forward_conf, back_conf, similarity)

_assess_translation_quality(forward_conf, back_conf, similarity) ==
    overall_quality_at(Float(forward_conf * 4 + back_conf * 3 + similarity * 3,
                             weighted_sum_err(forward_conf, back_conf, similarity)),
                       forward_conf, back_conf, similarity)

\* the back direction as it would be if it were fixed to Igala -> English
back_direction_fixed(source_direction) == "ig_to_en"

back_direction_of(source_direction) ==
    IF source_direction = "en_to_ig" THEN "ig_to_en" ELSE "en_to_ig"

back_translate(text, source_direction) ==
    IF is_blank(text)
    THEN [original_text |-> text,
          forward_translation |-> <<>>,
          back_translation |-> <<>>,
          forward_confidence |-> 0,
          back_confidence |-> 0,
          quality_metrics |-> [similarity_score |-> 0,
                               word_overlap |-> 0,
                               total_original_words |-> 0,
                               preservation_rate |-> 0],
          source_direction |-> source_direction]
    ELSE LET forward_result == translate_single(text, source_direction)
             forward_translation == forward_result.translated
             forward_confidence == forward_result.confidence
             back_direction == back_direction_of(source_direction)
             back_result == translate_single(forward_translation, back_direction)
             back_translation == back_result.translated
             back_confidence == back_result.confidence
             quality_metrics == calculate_back_translation_score(text, back_translation)
             overall_quality == _assess_translation_quality(forward_confidence, back_confidence,
                                                            quality_metrics.similarity_score)
         IN  [original_text |-> text,
              forward_translation |-> forward_translation,
              back_translation |-> back_translation,
              forward_confidence |-> forward_confidence,
              back_confidence |-> back_confidence,
              quality_metrics |-> quality_metrics,
              overall_quality |-> overall_quality,
              source_direction |-> source_direction]

back_translate_lookups(text, source_direction) ==
    IF is_blank(text) THEN 0
    ELSE translate_single_lookups(text)
         + translate_single_lookups(translate_single(text, source_direction).translated)

\* a Python exception that leaves the call
Raised(exception) == [raised |-> exception]

RECURSIVE sum_overall_score(_)
\* total_quality_score after the loop over the results: the scores added
\* one by one in the order of the results, as the exact number of
\* hundredths and as the double the additions give
sum_overall_score(results) ==
    IF results = <<>> THEN [hundredths |-> 0, double |-> Double(<<>>, 0)]
    ELSE LET total_quality_score == sum_overall_score(SubSeq(results, 1, Len(results) - 1))
             overall_score == results[Len(results)].overall_quality.overall_score
         IN  [hundredths |-> total_quality_score.hundredths + overall_score,
              double |-> double_add(total_quality_score.double,
                                    double_of(overall_score, 100))]

\* round(total / n, 2) as it would be if the third decimal were cut off
average_quality_score_truncate(total_quality_score, n) ==
    IF n = 0 THEN 0 ELSE total_quality_score.hundredths \div n

\* round(total_quality_score / len(texts) if texts else 0, 2), in hundredths:
\* at a decimal tie the double quotient is rounded to the side it lies on
average_quality_score(total_quality_score, n) ==
    IF n = 0 THEN 0
    ELSE LET q == total_quality_score.hundredths \div n
             r == total_quality_score.hundredths % n
             err == double_cmp(double_div(total_quality_score.double, n),
                               total_quality_score.hundredths, 100 * n)
         IN  IF 2 * r > n THEN q + 1
             ELSE IF 2 * r < n THEN q
             ELSE IF err > 0 THEN q + 1
             ELSE IF err < 0 THEN q
             ELSE round_half_even(total_quality_score.hundredths, n)

\* sum(1 for r in results if r['overall_quality']['quality_level'] == level)
count_level(results, level) ==
    Cardinality({i \in 1..Len(results) : results[i].overall_quality.quality_level = level})

\* what batch_back_translate makes of the results of its texts:
\* result['overall_quality'] raises KeyError on the result of a blank text
batch_back_translate_results(results, texts) ==
    IF \E i \in 1..Len(results) : "overall_quality" \notin DOMAIN results[i]
    THEN Raised("KeyError")
    ELSE [results |-> results,
          summary |->
              [total_texts |-> Len(texts),
               average_quality_score |->
                   average_quality_score(sum_overall_score(results), Len(texts)),
               quality_distribution |->
                   [Excellent |-> count_level(results, "Excellent"),
                    Good |-> count_level(results, "Good"),
                    Fair |-> count_level(results, "Fair"),
                    Poor |-> count_level(results, "Poor")]]]

batch_back_translate(texts, source_direction) ==
    batch_back_translate_results(
        [i \in 1..Len(texts) |-> back_translate(texts[i], source_direction)], texts)

RECURSIVE batch_back_translate_lookups(_, _)
\* the loop stops at the first text whose result raises
batch_back_translate_lookups(texts, source_direction) ==
    IF texts = <<>> \/ is_blank(texts[1]) THEN 0
    ELSE back_translate_lookups(texts[1], source_direction)
         + batch_back_translate_lookups(Tail(texts), source_direction)

\* translate_batch as it would be if blank texts were skipped
translate_batch_skip_blank(texts, direction) ==
    LET kept == SelectSeq(texts, LAMBDA text : ~is_blank(text))
    IN  [i \in 1..Len(kept) |-> translate_single(kept[i], direction)]

translate_batch(texts, direction) ==
    [i \in 1..Len(texts) |-> translate_single(texts[i], direction)]

RECURSIVE translate_batch_lookups(_)
translate_batch_lookups(texts) ==
    IF texts = <<>> THEN 0
    ELSE translate_single_lookups(texts[1]) + translate_batch_lookups(Tail(texts))

\* auto_detect_language as it would be if a tie counted as English
auto_detect_language_ge(text) ==
    IF is_blank(text) THEN "unknown"
    ELSE LET words == split(lower(text))
             english_matches ==
                 Cardinality({i \in 1..Len(words) : dict_has(english_to_igala, words[i])})
             igala_matches ==
                 Cardinality({i \in 1..Len(words) : dict_has(igala_to_english, words[i])})
         IN  IF english_matches >= igala_matches THEN "english"
             ELSE IF igala_matches > english_matches THEN "igala"
             ELSE "unknown"

auto_detect_language(text) ==
    IF is_blank(text) THEN "unknown"
    ELSE LET words == split(lower(text))
             english_matches ==
                 Cardinality({i \in 1..Len(words) : dict_has(english_to_igala, words[i])})
             igala_matches ==
                 Cardinality({i \in 1..Len(words) : dict_has(igala_to_english, words[i])})
         IN  IF english_matches > igala_matches THEN "english"
             ELSE IF igala_matches > english_matches THEN "igala"
             ELSE "unknown"

\* one 'in' per word and dictionary
auto_detect_language_lookups(text) ==
    IF is_blank(text) THEN 0 ELSE 2 * Len(split(lower(text)))

\* dict.keys(), in insertion order
dict_keys(d) == [i \in 1..Len(d) |-> d[i][1]]

\* word.startswith(prefix)
startswith(word, prefix) ==
    Len(prefix) <= Len(word) /\ SubSeq(word, 1, Len(prefix)) = prefix

\* ord(c), the code point that orders the characters of a str
ord(c) ==
    CASE c = "\t" -> 9
      [] c = " " -> 32
      [] c = "A" -> 65
      [] c = "B" -> 66
      [] c = "N" -> 78
      [] c = "a" -> 97
      [] c = "b" -> 98
      [] c = "n" -> 110

\* a < b on str: the first differing character decides, else the shorter is less
str_lt(a, b) ==
    LET differ == {i \in 1..Len(a) : i <= Len(b) /\ a[i] # b[i]}
    IN  IF differ = {} THEN Len(a) < Len(b)
        ELSE ord(a[SetMin(differ)]) < ord(b[SetMin(differ)])

insert_sorted(acc, word) ==
    LET k == Cardinality({i \in 1..Len(acc) : ~str_lt(word, acc[i])})
    IN  SubSeq(acc, 1, k) \o <<word>> \o SubSeq(acc, k + 1, Len(acc))

RECURSIVE sorted(_)
\* sorted(words): ascending, stable
sorted(words) ==
    IF words = <<>> THEN <<>>
    ELSE insert_sorted(sorted(SubSeq(words, 1, Len(words) - 1)), words[Len(words)])

\* list[:limit]: a negative limit counts from the end
slice_to(list, limit) ==
    IF limit >= 0
    THEN SubSeq(list, 1, IF limit < Len(list) THEN limit ELSE Len(list))
    ELSE SubSeq(list, 1, IF Len(list) + limit > 0 THEN Len(list) + limit ELSE 0)

get_word_suggestions(partial_word, language, limit) ==
    LET dictionary == IF language = "english" THEN dict_keys(english_to_igala)
                      ELSE dict_keys(igala_to_english)
        suggestions == SelectSeq(dictionary, LAMBDA word : startswith(word, lower(partial_word)))
    IN  slice_to(sorted(suggestions), limit)

(***************************************************************************)
(* Enumerated inputs of the quality assessment, in hundredths.             *)
(***************************************************************************)
AssessForward == {0, 5000, 6999, 7000, 7999, 10000}

AssessBack == {0, 6999, 7000, 8000, 10000}

AssessSimilarity == {0, 4999, 5000, 8000, 10000}

\* weighted sums that are decimal ties or thresholds in exact arithmetic
AssessSpecial ==
    {<<7958, 7624, 8432>>, <<0, 3333, 3332>>, <<5000, 3332, 3333>>, <<9999, 3333, 3334>>,
     <<1429, 7143, 7500>>, <<0, 0, 4545>>}

AssessInputs == (AssessForward \X AssessBack \X AssessSimilarity) \cup AssessSpecial

OverallInputs == {Float(59990, 0), Float(60000, 0)}

(***************************************************************************)
(* Flask handlers of main.py.  A response is the status code and the JSON  *)
(* body.                                                                   *)
(***************************************************************************)
Response(status, body) == [status |-> status, body |-> body]

\* a quotient of floats: num / den, num in hundredths; the double differs
\* from this ratio by its rounding error only
Ratio(num, den) == [num |-> num, den |-> den]

\* INSERT INTO translations, commit: one row appended
save_translation_history(table, user_id, original, translated, direction, confidence, session_id) ==
    Append(table, [user_id |-> user_id,
                   original_text |-> original,
                   translated_text |-> translated,
                   direction |-> direction,
                   confidence |-> confidence,
                   session_id |-> session_id])

RECURSIVE save_results(_, _, _, _)
\* 'for result in results: save_translation_history(...)'
save_results(table, results, user_id, session_id) ==
    IF results = <<>> THEN table
    ELSE save_results(save_translation_history(table, user_id, results[1].original,
                                               results[1].translated, results[1].direction,
                                               results[1].confidence, session_id),
                      Tail(results), user_id, session_id)

RECURSIVE sum_confidence(_)
\* sum(r['confidence'] for r in results)
sum_confidence(results) ==
    IF results = <<>> THEN 0 ELSE results[1].confidence + sum_confidence(Tail(results))

\* sum(...) / len(results) if results else 0
average_confidence(results) ==
    IF results # <<>> THEN Ratio(sum_confidence(results), Len(results)) ELSE Ratio(0, 1)

\* 'not texts or not isinstance(texts, list)'
invalid_texts(texts) == texts.value = <<>> \/ texts.type # "list"

\* POST /translate/batch: the response
translate_batch_response(texts, direction) ==
    IF invalid_texts(texts)
    THEN Response(400, [error |-> "Invalid input. Expected list of texts."])
    ELSE LET results == translate_batch(texts.value, direction)
         IN  Response(200, [results |-> results,
                            total_translations |-> Len(results),
                            average_confidence |-> average_confidence(results)])

\* POST /translate/batch: the translations table after the handler's
\* inserts, were no other request served meanwhile
translate_batch_history(table, texts, direction, user_id, session_id) ==
    IF invalid_texts(texts) THEN table
    ELSE save_results(table, translate_batch(texts.value, direction), user_id, session_id)

\* POST /translate: the response
translate_response(text, direction) == Response(200, translate_single(text, direction))

\* POST /translate: the translations table after the handler's insert
translate_history(table, text, direction, user_id, session_id) ==
    LET saved == translate_single(text, direction)
    IN  save_translation_history(table, user_id, saved.original, saved.translated,
                                 saved.direction, saved.confidence, session_id)

\* the literal parts of the f-strings that mark back translations
BackTranslateMark ==
    <<"[", "B", "A", "C", "K", "-", "T", "R", "A", "N", "S", "L", "A", "T",
      "E", "]", " ">>

BatchBackTranslateMark ==
    <<"[", "B", "A", "T", "C", "H", "-", "B", "A", "C", "K", "-", "T", "R",
      "A", "N", "S", "L", "A", "T", "E", "]", " ">>

ForwardLabel ==
    <<"F", "o", "r", "w", "a", "r", "d", ":", " ">>

BackLabel ==
    <<" ", "|", " ", "B", "a", "c", "k", ":", " ">>

\* the row a back translation is saved as
save_back_translation(table, user_id, mark, direction_prefix, back_translation, session_id) ==
    save_translation_history(table, user_id,
        mark \o back_translation.original_text,
        ForwardLabel \o back_translation.forward_translation
            \o BackLabel \o back_translation.back_translation,
        direction_prefix \o back_translation.source_direction,
        back_translation.overall_quality.overall_score,
        session_id)

\* 'except Exception as e: return jsonify({"error": str(e)}), 500' for the
\* KeyError of a result without 'overall_quality'
KeyErrorResponse == Response(500, [error |-> "'overall_quality'"])

\* POST /back-translate: the response
back_translate_response(text, source_direction) ==
    IF text = <<>> THEN Response(400, [error |-> "No text provided"])
    ELSE LET translated == back_translate(text, source_direction)
         IN  IF "overall_quality" \notin DOMAIN translated THEN KeyErrorResponse
             ELSE Response(200, translated)

\* the handler saves the result it goes on to return, and nothing once an
\* error response is due
save_back_translate_response(table, response, user_id, session_id) ==
    IF response.status # 200 THEN table
    ELSE save_back_translation(table, user_id, BackTranslateMark, "back_",
                               response.body, session_id)

\* POST /back-translate: the translations table after the handler's insert
back_translate_history(table, text, source_direction, user_id, session_id) ==
    save_back_translate_response(table, back_translate_response(text, source_direction),
                                 user_id, session_id)

\* POST /back-translate/batch: the response
batch_back_translate_response(texts, source_direction) ==
    IF invalid_texts(texts)
    THEN Response(400, [error |-> "Invalid input. Expected list of texts."])
    ELSE LET translated == batch_back_translate(texts.value, source_direction)
         IN  IF "raised" \in DOMAIN translated THEN KeyErrorResponse
             ELSE Response(200, translated)

RECURSIVE save_back_translations(_, _, _, _)
\* 'for back_translation in result['results']: save_translation_history(...)'
save_back_translations(table, results, user_id, session_id) ==
    IF results = <<>> THEN table
    ELSE save_back_translations(
             save_back_translation(table, user_id, BatchBackTranslateMark, "batch_back_",
                                   results[1], session_id),
             Tail(results), user_id, session_id)

\* the handler saves the results it goes on to return, and nothing once an
\* error response is due
save_batch_back_translate_response(table, response, user_id, session_id) ==
    IF response.status # 200 THEN table
    ELSE save_back_translations(table, response.body.results, user_id, session_id)

\* the table as it would be if the handler saved each text's row before it
\* went on to the next text
batch_back_translate_history_eager(table, texts, source_direction, user_id, session_id) ==
    IF invalid_texts(texts) THEN table
    ELSE LET results == [i \in 1..Len(texts.value) |->
                            back_translate(texts.value[i], source_direction)]
             blank == {i \in 1..Len(results) : "overall_quality" \notin DOMAIN results[i]}
             saved == IF blank = {} THEN results ELSE SubSeq(results, 1, SetMin(blank) - 1)
         IN  save_back_translations(table, saved, user_id, session_id)

\* POST /back-translate/batch: the translations table after the handler's
\* inserts, were no other request served meanwhile
batch_back_translate_history(table, texts, source_direction, user_id, session_id) ==
    save_batch_back_translate_response(
        table, batch_back_translate_response(texts, source_direction), user_id, session_id)

\* assess_translation_quality as it would be if the forward confidence were
\* measured on the original text
assess_translation_quality_measured(original_text, translated_text, direction) ==
    IF original_text = <<>> \/ translated_text = <<>>
    THEN Response(400, [error |-> "Both original_text and translated_text are required"])
    ELSE LET back_result == translate_single(translated_text, back_direction_of(direction))
             quality_metrics ==
                 calculate_back_translation_score(original_text, back_result.translated)
         IN  Response(200,
                 [original_text |-> original_text,
                  provided_translation |-> translated_text,
                  back_translation |-> back_result.translated,
                  back_confidence |-> back_result.confidence,
                  quality_metrics |-> quality_metrics,
                  overall_quality |->
                      _assess_translation_quality(
                          translate_single(original_text, direction).confidence,
                          back_result.confidence, quality_metrics.similarity_score),
                  direction |-> direction])

\* POST /translation-quality: the forward confidence is taken to be 100.0
assess_translation_quality(original_text, translated_text, direction) ==
    IF original_text = <<>> \/ translated_text = <<>>
    THEN Response(400, [error |-> "Both original_text and translated_text are required"])
    ELSE LET back_direction == back_direction_of(direction)
             back_result == translate_single(translated_text, back_direction)
             back_translation == back_result.translated
             back_confidence == back_result.confidence
             quality_metrics ==
                 calculate_back_translation_score(original_text, back_translation)
             overall_quality ==
                 _assess_translation_quality(10000, back_confidence,
                                             quality_metrics.similarity_score)
         IN  Response(200,
                 [original_text |-> original_text,
                  provided_translation |-> translated_text,
                  back_translation |-> back_translation,
                  back_confidence |-> back_confidence,
                  quality_metrics |-> quality_metrics,
                  overall_quality |-> overall_quality,
                  direction |-> direction])

\* get_suggestions as it would be without the check of the partial word
get_suggestions_unchecked(partial_word, language, limit) ==
    Response(200, [partial_word |-> partial_word,
                   suggestions |-> get_word_suggestions(partial_word, language, limit),
                   language |-> language])

\* POST /suggestions
get_suggestions(partial_word, language, limit) ==
    IF partial_word = <<>>
    THEN Response(200, [suggestions |-> <<>>])
    ELSE Response(200, [partial_word |-> partial_word,
                        suggestions |-> get_word_suggestions(partial_word, language, limit),
                        language |-> language])

(***************************************************************************)
(* The lazy singleton, get_model().  The server handles each request on    *)
(* its own thread and every handler calls get_model() first; there is no   *)
(* lock, so the statements of get_model() and of TranslationModel() run    *)
(* by different threads interleave freely.                                 *)
(***************************************************************************)
\* Python's None, in the place of an object id
None == 0

Threads == 1..MaxThreads

\* the attribute of an object, or the default while it is not assigned yet
attr(obj, name, default) == IF name \in DOMAIN obj THEN obj[name] ELSE default

\* an object whose constructor has run to its end
constructed(obj) == {"data", "english_to_igala", "igala_to_english"} \subseteq DOMAIN obj

\* the order of the statements a first caller executes, were the global
\* bound to the new object before its constructor ran
next_statement_publish_first(pc) ==
    CASE pc = "read_csv" -> "assign"
      [] pc = "assign" -> "_preprocess_data"
      [] pc = "_preprocess_data" -> "english_to_igala"
      [] pc = "english_to_igala" -> "igala_to_english"
      [] pc = "igala_to_english" -> "return"
      [] pc = "return" -> "done"

\* the order of the statements a first caller executes: the constructor
\* (read_csv, _preprocess_data, the two dictionaries), then the assignment to
\* the global, then the return
next_statement(pc) ==
    CASE pc = "read_csv" -> "_preprocess_data"
      [] pc = "_preprocess_data" -> "english_to_igala"
      [] pc = "english_to_igala" -> "igala_to_english"
      [] pc = "igala_to_english" -> "assign"
      [] pc = "assign" -> "return"
      [] pc = "return" -> "done"

\* no call in progress; a finished call's result is not retained by the model
Idle == [op |-> "idle"]

NoResult == [none |-> TRUE]

\* a thread about to call get_model(); it serves no request
ThreadStart ==
    [pc |-> "get_model", self |-> None, returned |-> None,
     request |-> Idle, response |-> NoResult, lookups |-> 0, rows |-> <<>>, saved |-> 0,
     first |-> 0]

\* after the first request was served by one thread and the others followed
ThreadsServed ==
    [t \in Threads |->
        [ThreadStart EXCEPT !.pc = "done", !.self = IF t = 1 THEN 1 ELSE None,
                            !.returned = 1]]

\* the object TranslationModel() yields for the file
TranslationModel(rows) ==
    [data |-> _preprocess_data(rows),
     english_to_igala |-> build_english_to_igala(_preprocess_data(rows)),
     igala_to_english |->
         build_igala_to_english(build_english_to_igala(_preprocess_data(rows)))]

(***************************************************************************)
(* The state machine: construction, then any sequence of method calls.     *)
(***************************************************************************)
Init ==
    \E rows \in Corpora :
        /\ csv = rows
        /\ english_to_igala = build_english_to_igala(_preprocess_data(rows))
        /\ igala_to_english = build_igala_to_english(build_english_to_igala(_preprocess_data(rows)))
        /\ history = <<>>
        /\ call = Idle
        /\ result = NoResult
        /\ lookups = 0
        /\ _model_instance = 1
        /\ objects = <<TranslationModel(rows)>>
        /\ threads = ThreadsServed

\* translate_single as it would be if it remembered every word it looked up
\* (dictionary.setdefault(word, word) in place of dictionary.get(word, word))
TranslateSingle_setdefault ==
    /\ call = Idle
    /\ \E text \in Texts, direction \in Directions :
           LET words == IF is_blank(text) THEN <<>> ELSE split(lower(text))
               seen == dict_from_items([n \in 1..Len(words) |-> <<words[n], words[n]>>], <<>>)
               remembered(d) ==
                   dict_from_items(SelectSeq(seen, LAMBDA p : ~dict_has(d, p[1])), d)
           IN  /\ call' = [op |-> "translate_single", text |-> text, direction |-> direction]
               /\ result' = translate_single(text, direction)
               /\ lookups' = translate_single_lookups(text)
               /\ english_to_igala' = IF direction = "en_to_ig"
                                      THEN remembered(english_to_igala) ELSE english_to_igala
               /\ igala_to_english' = IF direction = "en_to_ig"
                                      THEN igala_to_english ELSE remembered(igala_to_english)
               /\ UNCHANGED <<process, csv, history>>

TranslateSingle ==
    /\ call = Idle
    /\ \E text \in Texts, direction \in Directions :
           /\ call' = [op |-> "translate_single", text |-> text, direction |-> direction]
           /\ result' = translate_single(text, direction)
           /\ lookups' = translate_single_lookups(text)
           /\ UNCHANGED <<process, csv, english_to_igala, igala_to_english, history>>

BackTranslate ==
    /\ call = Idle
    /\ \E text \in Texts, source_direction \in Directions :
           /\ call' = [op |-> "back_translate", text |-> text,
                       source_direction |-> source_direction]
           /\ result' = back_translate(text, source_direction)
           /\ lookups' = back_translate_lookups(text, source_direction)
           /\ UNCHANGED <<process, csv, english_to_igala, igala_to_english, history>>

CalculateBackTranslationScore ==
    /\ call = Idle
    /\ \E original \in ScoreTexts, back_translated \in ScoreTexts :
           /\ call' = [op |-> "calculate_back_translation_score", original |-> original,
                       back_translated |-> back_translated]
           /\ result' = calculate_back_translation_score(original, back_translated)
           /\ lookups' = 0
           /\ UNCHANGED <<process, csv, english_to_igala, igala_to_english, history>>

AssessTranslationQuality ==
    /\ call = Idle
    /\ \E in \in AssessInputs :
           /\ call' = [op |-> "_assess_translation_quality", forward_conf |-> in[1],
                       back_conf |-> in[2], similarity |-> in[3]]
           /\ result' = _assess_translation_quality(in[1], in[2], in[3])
           /\ lookups' = 0
           /\ UNCHANGED <<process, csv, english_to_igala, igala_to_english, history>>

GetQualityRecommendations ==
    /\ call = Idle
    /\ \E overall \in OverallInputs, in \in AssessInputs :
           /\ call' = [op |-> "_get_quality_recommendations", overall |-> overall,
                       forward |-> in[1], back |-> in[2], similarity |-> in[3]]
           /\ result' = [recommendations |->
                           _get_quality_recommendations(overall, in[1], in[2], in[3])]
           /\ lookups' = 0
           /\ UNCHANGED <<process, csv, english_to_igala, igala_to_english, history>>

BatchBackTranslate ==
    /\ call = Idle
    /\ \E texts \in BatchTexts, source_direction \in Directions :
           /\ call' = [op |-> "batch_back_translate", texts |-> texts,
                       source_direction |-> source_direction]
           /\ result' = batch_back_translate(texts, source_direction)
           /\ lookups' = batch_back_translate_lookups(texts, source_direction)
           /\ UNCHANGED <<process, csv, english_to_igala, igala_to_english, history>>

TranslateBatch ==
    /\ call = Idle
    /\ \E texts \in BatchTexts, direction \in Directions :
           /\ call' = [op |-> "translate_batch", texts |-> texts, direction |-> direction]
           /\ result' = [results |-> translate_batch(texts, direction)]
           /\ lookups' = translate_batch_lookups(texts)
           /\ UNCHANGED <<process, csv, english_to_igala, igala_to_english, history>>

AutoDetectLanguage ==
    /\ call = Idle
    /\ \E text \in Texts :
           /\ call' = [op |-> "auto_detect_language", text |-> text]
           /\ result' = [detected_language |-> auto_detect_language(text)]
           /\ lookups' = auto_detect_language_lookups(text)
           /\ UNCHANGED <<process, csv, english_to_igala, igala_to_english, history>>

GetWordSuggestions ==
    /\ call = Idle
    /\ \E partial_word \in Partials, language \in Languages, limit \in Limits :
           /\ call' = [op |-> "get_word_suggestions", partial_word |-> partial_word,
                       language |-> language, limit |-> limit]
           /\ result' = [suggestions |-> get_word_suggestions(partial_word, language, limit)]
           /\ lookups' = 0
           /\ UNCHANGED <<process, csv, english_to_igala, igala_to_english, history>>

\* the call returns; its result is a fresh value object that the model object
\* does not keep
Return ==
    /\ call # Idle
    /\ call' = Idle
    /\ result' = NoResult
    /\ lookups' = 0
    /\ UNCHANGED <<process, csv, english_to_igala, igala_to_english, history>>

Next ==
    \/ TranslateSingle
    \/ BackTranslate
    \/ CalculateBackTranslationScore
    \/ AssessTranslationQuality
    \/ GetQualityRecommendations
    \/ BatchBackTranslate
    \/ TranslateBatch
    \/ AutoDetectLanguage
    \/ GetWordSuggestions
    \/ Return

\* the number of rows the handler would add to the translations table
rows_added(texts) == IF invalid_texts(texts) THEN 0 ELSE Len(texts.value)

\* a thread that serves no request
free(t) == threads[t].request = Idle

\* the thread that takes the next request
free_thread == SetMin({t \in Threads : free(t)})

RECURSIVE rows_in_flight(_)
\* the rows that the handlers of the threads 1..t have still to insert
rows_in_flight(t) ==
    IF t = 0 THEN 0
    ELSE Len(threads[t].rows) - threads[t].saved + rows_in_flight(t - 1)

\* a handler from its first statement up to its first save_translation_history
\* call, or up to its return when it makes none: it has read the request and
\* called the model; 'response' is what it goes on to return, 'rows' are the
\* arguments of the saves it makes before that.  A handler that saves
\* nothing returns in the same step.
handle(request, response, n, rows) ==
    IF rows = <<>>
    THEN /\ call' = request
         /\ result' = response
         /\ lookups' = n
         /\ UNCHANGED <<process, csv, english_to_igala, igala_to_english, history>>
    ELSE /\ threads' = [threads EXCEPT ![free_thread] =
                [@ EXCEPT !.request = request, !.response = response, !.lookups = n,
                          !.rows = rows, !.saved = 0, !.first = Len(history)]]
         /\ UNCHANGED <<csv, english_to_igala, igala_to_english, call, result, lookups,
                        history, _model_instance, objects>>

\* one call of save_translation_history by a handler: connect, INSERT,
\* commit, close.  Each call commits on its own, so the rows of requests
\* served at the same time may alternate in the table, and after the last
\* call of a handler other threads run before the handler returns.
SaveTranslationHistory ==
    \E t \in Threads :
        /\ threads[t].saved < Len(threads[t].rows)
        /\ history' = Append(history, threads[t].rows[threads[t].saved + 1])
        /\ threads' = [threads EXCEPT ![t].saved = @ + 1]
        /\ UNCHANGED <<csv, english_to_igala, igala_to_english, call, result, lookups,
                       _model_instance, objects>>

\* 'return jsonify(...)' of a handler that has saved all its results: the
\* response is given, the table is not touched
Jsonify ==
    /\ call = Idle
    /\ \E t \in Threads :
           /\ ~free(t)
           /\ threads[t].saved = Len(threads[t].rows)
           /\ history' = history
           /\ call' = threads[t].request
           /\ result' = threads[t].response
           /\ lookups' = threads[t].lookups
           /\ threads' = [threads EXCEPT ![t] =
                  [@ EXCEPT !.request = Idle, !.response = NoResult, !.lookups = 0,
                            !.rows = <<>>, !.saved = 0, !.first = 0]]
           /\ UNCHANGED <<csv, english_to_igala, igala_to_english, _model_instance, objects>>

PostTranslateBatch ==
    /\ call = Idle
    /\ \E t \in Threads : free(t)
    /\ \E texts \in HttpTexts, direction \in HttpDirections, client \in HttpClients :
           /\ Len(history) + rows_in_flight(MaxThreads) + rows_added(texts) <= MaxHistory
           /\ handle([op |-> "/translate/batch", texts |-> texts, direction |-> direction,
                      user_id |-> client.user_id, session_id |-> client.session_id],
                     translate_batch_response(texts, direction),
                     IF invalid_texts(texts) THEN 0 ELSE translate_batch_lookups(texts.value),
                     translate_batch_history(<<>>, texts, direction, client.user_id,
                                             client.session_id))

PostSuggestions ==
    /\ call = Idle
    /\ \E partial_word \in Partials, language \in Languages, limit \in Limits :
           /\ call' = [op |-> "/suggestions", partial_word |-> partial_word,
                       language |-> language, limit |-> limit]
           /\ result' = get_suggestions(partial_word, language, limit)
           /\ lookups' = 0
           /\ UNCHANGED <<process, csv, english_to_igala, igala_to_english, history>>

PostTranslationQuality ==
    /\ call = Idle
    /\ \E original_text \in HttpQualityTexts, translated_text \in HttpQualityTexts,
          direction \in HttpDirections :
           /\ call' = [op |-> "/translation-quality", original_text |-> original_text,
                       translated_text |-> translated_text, direction |-> direction]
           /\ result' = assess_translation_quality(original_text, translated_text, direction)
           /\ lookups' = IF original_text = <<>> \/ translated_text = <<>> THEN 0
                         ELSE translate_single_lookups(translated_text)
           /\ UNCHANGED <<process, csv, english_to_igala, igala_to_english, history>>

NextHttp ==
    \/ PostSuggestions
    \/ PostTranslationQuality
    \/ Return

\* the process before its first request, over any corpus file: no instance,
\* every thread about to call get_model()
InitBuild ==
    \E rows \in CsvFiles :
        /\ csv = rows
        /\ english_to_igala = <<>>
        /\ igala_to_english = <<>>
        /\ history = <<>>
        /\ call = Idle
        /\ result = NoResult
        /\ lookups = 0
        /\ _model_instance = None
        /\ objects = <<>>
        /\ threads = [t \in Threads |-> ThreadStart]

\* the process before its first request: no instance, every thread about to
\* call get_model()
InitSingleton ==
    \E rows \in Corpora :
        /\ csv = rows
        /\ english_to_igala = <<>>
        /\ igala_to_english = <<>>
        /\ history = <<>>
        /\ call = Idle
        /\ result = NoResult
        /\ lookups = 0
        /\ _model_instance = None
        /\ objects = <<>>
        /\ threads = [t \in Threads |-> ThreadStart]

\* if _model_instance is None:
GetModelCheck ==
    \E t \in Threads :
        /\ threads[t].pc = "get_model"
        /\ threads' = [threads EXCEPT ![t].pc =
               IF _model_instance = None THEN "read_csv" ELSE "return"]
        /\ UNCHANGED <<csv, english_to_igala, igala_to_english, call, result,
                       lookups, history, _model_instance, objects>>

\* TranslationModel(): a new object; self.data = pd.read_csv(csv_path)
ReadCsv ==
    \E t \in Threads :
        /\ threads[t].pc = "read_csv"
        /\ objects' = Append(objects, [data |-> csv])
        /\ threads' = [threads EXCEPT ![t].self = Len(objects) + 1,
                                      ![t].pc = next_statement("read_csv")]
        /\ UNCHANGED <<csv, english_to_igala, igala_to_english, call, result,
                       lookups, history, _model_instance>>

\* self._preprocess_data()
PreprocessData ==
    \E t \in Threads :
        /\ threads[t].pc = "_preprocess_data"
        /\ objects' = [objects EXCEPT ![threads[t].self].data = _preprocess_data(@)]
        /\ threads' = [threads EXCEPT ![t].pc = next_statement("_preprocess_data")]
        /\ UNCHANGED <<csv, english_to_igala, igala_to_english, call, result,
                       lookups, history, _model_instance>>

\* self.english_to_igala = self.data.set_index('English')['Igala'].to_dict()
BuildEnglishToIgala ==
    \E t \in Threads :
        /\ threads[t].pc = "english_to_igala"
        /\ objects' = [objects EXCEPT ![threads[t].self] =
               [data |-> @.data, english_to_igala |-> build_english_to_igala(@.data)]]
        /\ threads' = [threads EXCEPT ![t].pc = next_statement("english_to_igala")]
        /\ UNCHANGED <<csv, english_to_igala, igala_to_english, call, result,
                       lookups, history, _model_instance>>

\* self.igala_to_english = {v: k for k, v in self.english_to_igala.items()}
BuildIgalaToEnglish ==
    \E t \in Threads :
        /\ threads[t].pc = "igala_to_english"
        /\ objects' = [objects EXCEPT ![threads[t].self] =
               [data |-> @.data, english_to_igala |-> @.english_to_igala,
                igala_to_english |-> build_igala_to_english(@.english_to_igala)]]
        /\ threads' = [threads EXCEPT ![t].pc = next_statement("igala_to_english")]
        /\ UNCHANGED <<csv, english_to_igala, igala_to_english, call, result,
                       lookups, history, _model_instance>>

\* _model_instance = <the new object>; from here on the calls of every
\* thread use this object's dictionaries
GetModelAssign ==
    \E t \in Threads :
        /\ threads[t].pc = "assign"
        /\ _model_instance' = threads[t].self
        /\ english_to_igala' = attr(objects[threads[t].self], "english_to_igala", <<>>)
        /\ igala_to_english' = attr(objects[threads[t].self], "igala_to_english", <<>>)
        /\ threads' = [threads EXCEPT ![t].pc = next_statement("assign")]
        /\ UNCHANGED <<csv, call, result, lookups, history, objects>>

\* return _model_instance
GetModelReturn ==
    \E t \in Threads :
        /\ threads[t].pc = "return"
        /\ threads' = [threads EXCEPT ![t].returned = _model_instance,
                                      ![t].pc = next_statement("return")]
        /\ UNCHANGED <<csv, english_to_igala, igala_to_english, call, result,
                       lookups, history, _model_instance, objects>>

NextSingleton ==
    \/ GetModelCheck
    \/ ReadCsv
    \/ PreprocessData
    \/ BuildEnglishToIgala
    \/ BuildIgalaToEnglish
    \/ GetModelAssign
    \/ GetModelReturn

PostTranslate ==
    /\ call = Idle
    /\ \E t \in Threads : free(t)
    /\ Len(history) + rows_in_flight(MaxThreads) + 1 <= MaxHistory
    /\ \E text \in HttpItems, direction \in HttpDirections, client \in HttpClients :
           handle([op |-> "/translate", text |-> text, direction |-> direction,
                   user_id |-> client.user_id, session_id |-> client.session_id],
                  translate_response(text, direction),
                  translate_single_lookups(text),
                  translate_history(<<>>, text, direction, client.user_id,
                                    client.session_id))

PostBackTranslate ==
    /\ call = Idle
    /\ \E t \in Threads : free(t)
    /\ Len(history) + rows_in_flight(MaxThreads) + 1 <= MaxHistory
    /\ \E text \in HttpBackTexts, source_direction \in HttpSourceDirections,
          client \in HttpClients :
           handle([op |-> "/back-translate", text |-> text,
                   source_direction |-> source_direction, user_id |-> client.user_id,
                   session_id |-> client.session_id],
                  back_translate_response(text, source_direction),
                  back_translate_lookups(text, source_direction),
                  back_translate_history(<<>>, text, source_direction, client.user_id,
                                         client.session_id))

PostBatchBackTranslate ==
    /\ call = Idle
    /\ \E t \in Threads : free(t)
    /\ \E texts \in HttpTexts, source_direction \in HttpSourceDirections,
          client \in HttpClients :
           /\ Len(history) + rows_in_flight(MaxThreads) + rows_added(texts) <= MaxHistory
           /\ handle([op |-> "/back-translate/batch", texts |-> texts,
                      source_direction |-> source_direction, user_id |-> client.user_id,
                      session_id |-> client.session_id],
                     batch_back_translate_response(texts, source_direction),
                     IF invalid_texts(texts) THEN 0
                     ELSE batch_back_translate_lookups(texts.value, source_direction),
                     batch_back_translate_history(<<>>, texts, source_direction,
                                                  client.user_id, client.session_id))

InitHistory == Init /\ csv = CorpusPhrase

NextHistory ==
    \/ PostTranslate
    \/ SaveTranslationHistory
    \/ Jsonify
    \/ PostTranslateBatch
    \/ PostBackTranslate
    \/ PostBatchBackTranslate
    \/ Return

Spec == Init /\ [][Next]_vars

\* the construction of the model object from any corpus file, by the
\* statements of get_model() as the threads of the server run them
SpecBuild == InitBuild /\ [][NextSingleton]_vars

\* concurrent first callers of get_model()
SpecSingleton == InitSingleton /\ [][NextSingleton]_vars

\* the requests that write the translation history, served by a process
\* that has loaded the phrase corpus: a handler inserts its rows one by one
\* and returns with the last of them, and the rows of handlers on different
\* threads may alternate
SpecHistory == InitHistory /\ [][NextHistory]_vars

\* the requests that only read the model
SpecHttp == Init /\ [][NextHttp]_vars

(***************************************************************************)
(* Vocabulary of the properties: whitespace tokens, lower-casing, mapping  *)
(* lookup and single-space joining, stated on positions of the text.       *)
(***************************************************************************)
ClaimIsSpace(c) == c = " " \/ c = "\t"

ClaimBlank(s) == \A i \in 1..Len(s) : ClaimIsSpace(s[i])

ClaimLower(s) == [i \in 1..Len(s) |-> IF s[i] = "A" THEN "a" ELSE IF s[i] = "B" THEN "b" ELSE s[i]]

ClaimStarts(s) ==
    {i \in 1..Len(s) : ~ClaimIsSpace(s[i]) /\ (i = 1 \/ ClaimIsSpace(s[i - 1]))}

ClaimEnd(s, i) == SetMax({j \in i..Len(s) : \A k \in i..j : ~ClaimIsSpace(s[k])})

ClaimNthStart(s, n) ==
    CHOOSE i \in ClaimStarts(s) : Cardinality({j \in ClaimStarts(s) : j < i}) = n - 1

\* the maximal whitespace-free runs of s, left to right
ClaimTokens(s) ==
    [n \in 1..Cardinality(ClaimStarts(s)) |->
        SubSeq(s, ClaimNthStart(s, n), ClaimEnd(s, ClaimNthStart(s, n)))]

ClaimWordSet(s) == {ClaimTokens(ClaimLower(s))[n] : n \in 1..Cardinality(ClaimStarts(s))}

ClaimMapping(direction) ==
    IF direction = "en_to_ig" THEN english_to_igala ELSE igala_to_english

ClaimIsKey(d, k) == \E n \in DOMAIN d : d[n][1] = k

ClaimValue(d, k) == (CHOOSE p \in {d[n] : n \in DOMAIN d} : p[1] = k)[2]

ClaimSubstituted(text, direction) ==
    LET toks == ClaimTokens(ClaimLower(text))
        d == ClaimMapping(direction)
    IN  [n \in DOMAIN toks |-> IF ClaimIsKey(d, toks[n]) THEN ClaimValue(d, toks[n]) ELSE toks[n]]

ClaimFound(text, direction) ==
    LET toks == ClaimTokens(ClaimLower(text))
    IN  Cardinality({n \in DOMAIN toks : ClaimIsKey(ClaimMapping(direction), toks[n])})

\* out is the words in order with exactly one space between neighbours
ClaimIsJoined(out, words) ==
    LET n == Len(words)
        Offset[k \in 1..(n + 1)] == IF k = 1 THEN 1 ELSE Offset[k - 1] + Len(words[k - 1]) + 1
    IN  IF n = 0 THEN out = <<>>
        ELSE /\ Len(out) = Offset[n + 1] - 2
             /\ \A k \in 1..n :
                   /\ SubSeq(out, Offset[k], Offset[k] + Len(words[k]) - 1) = words[k]
                   /\ k < n => out[Offset[k] + Len(words[k])] = " "

\* c (hundredths) is num / den x 100 rounded to two decimals
ClaimIsPercent(c, num, den) ==
    /\ 2 * (c * den - num * 10000) <= den
    /\ 2 * (num * 10000 - c * den) <= den

(***************************************************************************)
(* C1: for every text that is not empty or whitespace-only and every       *)
(* direction, translate_single returns the lower-cased whitespace tokens   *)
(* of the text, each replaced by its value in the selected mapping when it *)
(* is a key and left unchanged otherwise, in input order, joined by single *)
(* spaces.                                                                 *)
(***************************************************************************)
C1_TranslateSingleSubstitutes ==
    (call.op = "translate_single" /\ ~ClaimBlank(call.text)) =>
        ClaimIsJoined(result.translated, ClaimSubstituted(call.text, call.direction))

\* a mixed-case text of two tokens, one a key of the mapping and one not
C1_Witness ==
    /\ call.op = "translate_single"
    /\ call.text # ClaimLower(call.text)
    /\ LET toks == ClaimTokens(ClaimLower(call.text))
       IN  /\ Len(toks) = 2
           /\ \E n \in DOMAIN toks : ClaimIsKey(ClaimMapping(call.direction), toks[n])
           /\ \E n \in DOMAIN toks : ~ClaimIsKey(ClaimMapping(call.direction), toks[n])
    /\ C1_TranslateSingleSubstitutes

(***************************************************************************)
(* C2: the confidence of translate_single is the share of the lower-cased  *)
(* input tokens that are keys of the selected mapping, x 100, rounded to   *)
(* two decimals (0 when there is no token); it is counted on the input     *)
(* tokens, not on the substituted values, and lies in [0, 100].            *)
(***************************************************************************)
C2_ConfidenceIsCoverage ==
    call.op = "translate_single" =>
        LET total == Cardinality(ClaimStarts(call.text))
        IN  /\ result.confidence \in 0..10000
            /\ IF total = 0 THEN result.confidence = 0
               ELSE ClaimIsPercent(result.confidence, ClaimFound(call.text, call.direction), total)

\* half of the input tokens are keys, and the substituted value is not a key
C2_Witness ==
    /\ call.op = "translate_single"
    /\ result.confidence = 5000
    /\ \E n \in DOMAIN ClaimSubstituted(call.text, call.direction) :
          /\ ClaimIsKey(ClaimMapping(call.direction), ClaimTokens(ClaimLower(call.text))[n])
          /\ ~ClaimIsKey(ClaimMapping(call.direction), ClaimSubstituted(call.text, call.direction)[n])

(***************************************************************************)
(* C3: for every direction, translate_single of an empty or whitespace-    *)
(* only text returns translated = "" and confidence = 0.0 and performs no  *)
(* lookup in either mapping.                                               *)
(***************************************************************************)
C3_BlankTextShortCircuits ==
    (call.op = "translate_single" /\ ClaimBlank(call.text)) =>
        /\ result.translated = <<>>
        /\ result.confidence = 0
        /\ lookups = 0

\* a whitespace-only, non-empty text, with a non-empty mapping at hand
C3_Witness ==
    /\ call.op = "translate_single"
    /\ call.text # <<>>
    /\ ClaimBlank(call.text)
    /\ ClaimMapping(call.direction) # <<>>
    /\ result.translated = <<>>

(***************************************************************************)
(* C4: for every non-empty text and source direction, back_translate's     *)
(* forward_translation is translate_single(text, source direction), its    *)
(* back_translation is translate_single(forward_translation, opposite      *)
(* direction), and its quality metrics compare the original text with that *)
(* back_translation.                                                       *)
(***************************************************************************)
ClaimOpposite(direction) == IF direction = "en_to_ig" THEN "ig_to_en" ELSE "en_to_ig"

C4_BackTranslatePipeline ==
    (call.op = "back_translate" /\ call.text # <<>>) =>
        /\ result.forward_translation =
              translate_single(call.text, call.source_direction).translated
        /\ result.forward_confidence =
              translate_single(call.text, call.source_direction).confidence
        /\ result.back_translation =
              translate_single(result.forward_translation,
                               ClaimOpposite(call.source_direction)).translated
        /\ result.back_confidence =
              translate_single(result.forward_translation,
                               ClaimOpposite(call.source_direction)).confidence
        /\ result.quality_metrics =
              calculate_back_translation_score(call.text, result.back_translation)

\* a round trip from Igala whose reverse step changes the forward output and
\* does not give the original back
C4_Witness ==
    /\ call.op = "back_translate"
    /\ call.source_direction = "ig_to_en"
    /\ result.forward_translation # call.text
    /\ result.back_translation # result.forward_translation
    /\ result.back_translation # ClaimLower(call.text)
    /\ C4_BackTranslatePipeline

(***************************************************************************)
(* C5: for a non-empty original word set, calculate_back_translation_score *)
(* works on the sets of lower-cased whitespace-separated words:            *)
(* word_overlap is the size of the intersection, total_original_words the  *)
(* size of the original set, and similarity_score = preservation_rate =    *)
(* overlap / total x 100 rounded to two decimals; score(x, x) is 100.      *)
(***************************************************************************)
C5_ScoreIsSetOverlap ==
    (call.op = "calculate_back_translation_score" /\ ~ClaimBlank(call.original)) =>
        LET O == ClaimWordSet(call.original)
            B == ClaimWordSet(call.back_translated)
        IN  /\ result.word_overlap = Cardinality(O \cap B)
            /\ result.total_original_words = Cardinality(O)
            /\ ClaimIsPercent(result.similarity_score, Cardinality(O \cap B), Cardinality(O))
            /\ result.preservation_rate = result.similarity_score
            /\ result.overlapping_words = O \cap B
            /\ call.back_translated = call.original => result.similarity_score = 10000

\* the original repeats a word (in another case) and the back translation
\* carries it once, in another order of words
C5_Witness ==
    /\ call.op = "calculate_back_translation_score"
    /\ Cardinality(ClaimStarts(call.original)) = 2
    /\ result.total_original_words = 1
    /\ result.word_overlap = 1
    /\ call.back_translated # call.original
    /\ result.similarity_score = 10000

(***************************************************************************)
(* C6: with an empty or whitespace-only original,                          *)
(* calculate_back_translation_score returns the same fields as in the      *)
(* non-empty case: similarity_score 0, word_overlap 0,                     *)
(* total_original_words 0, preservation_rate 0 and an empty set of         *)
(* overlapping words.                                                      *)
(***************************************************************************)
C6_EmptyOriginalHasAllFields ==
    (call.op = "calculate_back_translation_score" /\ ClaimBlank(call.original)) =>
        /\ DOMAIN result = {"similarity_score", "word_overlap", "total_original_words",
                            "preservation_rate", "overlapping_words"}
        /\ result.similarity_score = 0
        /\ result.word_overlap = 0
        /\ result.total_original_words = 0
        /\ result.preservation_rate = 0
        /\ result.overlapping_words = {}

(***************************************************************************)
(* C7: the overall_score of _assess_translation_quality is                 *)
(* 0.4 x forward + 0.3 x back + 0.3 x similarity rounded to two decimals   *)
(* (a nearest two-decimal value of the weighted sum), and lies in          *)
(* [0, 100].                                                               *)
(***************************************************************************)
ClaimWeightedSum(f, b, s) == 4 * f + 3 * b + 3 * s

C7_OverallScoreIsWeightedSum ==
    call.op = "_assess_translation_quality" =>
        LET T == ClaimWeightedSum(call.forward_conf, call.back_conf, call.similarity)
        IN  /\ result.overall_score \in 0..10000
            /\ 10 * result.overall_score - T \in -5..5

\* the three inputs differ and the weighted sum has a third decimal to round
C7_Witness ==
    /\ call.op = "_assess_translation_quality"
    /\ call.forward_conf > call.back_conf
    /\ call.back_conf > call.similarity
    /\ ClaimWeightedSum(call.forward_conf, call.back_conf, call.similarity) % 10 > 5
    /\ C7_OverallScoreIsWeightedSum

(***************************************************************************)
(* C8: the quality level of _assess_translation_quality is determined by   *)
(* the overall_score it returns: >= 80 Excellent, >= 60 Good, >= 40 Fair,  *)
(* else Poor, with the fixed description of that level.                    *)
(***************************************************************************)
ClaimLevel(score) ==
    IF score >= 8000 THEN "Excellent"
    ELSE IF score >= 6000 THEN "Good"
    ELSE IF score >= 4000 THEN "Fair"
    ELSE "Poor"

ClaimDescription ==
    [Excellent |-> "High-quality translation with good preservation of meaning",
     Good |-> "Acceptable translation with minor meaning loss",
     Fair |-> "Translation may have some meaning distortion",
     Poor |-> "Translation quality is low, manual review recommended"]

C8_LevelFollowsReturnedScore ==
    call.op = "_assess_translation_quality" =>
        /\ result.quality_level = ClaimLevel(result.overall_score)
        /\ result.quality_description = ClaimDescription[result.quality_level]

(***************************************************************************)
(* C9: the recommendations are built from the four rules forward < 70,     *)
(* back < 70, similarity < 50, overall < 60, each evaluated on its own and *)
(* in that order, each appending its fixed message; the list is never      *)
(* empty and is the single 'no immediate concerns' message exactly when no *)
(* rule triggers.                                                          *)
(***************************************************************************)
ClaimMessages ==
    << "Consider reviewing the forward translation - low dictionary coverage",
       "Back translation has low confidence - may indicate translation issues",
       "Low similarity between original and back-translated text - meaning may be lost",
       "Overall quality is below acceptable threshold - manual review recommended" >>

ClaimGoodMessage == "Translation quality is good - no immediate concerns"

ClaimTriggered ==
    << call.forward < 7000, call.back < 7000, call.similarity < 5000,
       call.overall.milli < 60000 >>

C9_RecommendationsFollowRules ==
    call.op = "_get_quality_recommendations" =>
        LET recs == result.recommendations
            Pos(m) == CHOOSE n \in DOMAIN recs : recs[n] = m
        IN  /\ recs # <<>>
            /\ (recs = <<ClaimGoodMessage>>) <=> (\A i \in 1..4 : ~ClaimTriggered[i])
            /\ (\E i \in 1..4 : ClaimTriggered[i]) =>
                  /\ Len(recs) = Cardinality({i \in 1..4 : ClaimTriggered[i]})
                  /\ \A i \in 1..4 :
                        ClaimTriggered[i] <=> (\E n \in DOMAIN recs : recs[n] = ClaimMessages[i])
                  /\ \A i, j \in 1..4 :
                        (i < j /\ ClaimTriggered[i] /\ ClaimTriggered[j]) =>
                            Pos(ClaimMessages[i]) < Pos(ClaimMessages[j])

\* the second and the fourth rule trigger, the first and the third do not
C9_Witness ==
    /\ call.op = "_get_quality_recommendations"
    /\ ClaimTriggered = <<FALSE, TRUE, FALSE, TRUE>>
    /\ result.recommendations = <<ClaimMessages[2], ClaimMessages[4]>>

(***************************************************************************)
(* C10: back_translate of an empty or whitespace-only text returns a       *)
(* complete result: empty forward and back translations, confidences 0,    *)
(* zero-valued quality metrics, and an overall_quality whose               *)
(* recommendations are the single 'no immediate concerns' message.         *)
(***************************************************************************)
C10_BlankBackTranslateIsComplete ==
    (call.op = "back_translate" /\ ClaimBlank(call.text)) =>
        /\ result.forward_translation = <<>>
        /\ result.back_translation = <<>>
        /\ result.forward_confidence = 0
        /\ result.back_confidence = 0
        /\ result.quality_metrics.similarity_score = 0
        /\ result.quality_metrics.word_overlap = 0
        /\ result.quality_metrics.total_original_words = 0
        /\ result.quality_metrics.preservation_rate = 0
        /\ "overall_quality" \in DOMAIN result
        /\ result.overall_quality.recommendations = <<ClaimGoodMessage>>

(***************************************************************************)
(* C11: batch_back_translate never raises for any list of strings,         *)
(* including the empty list and lists that contain empty or                *)
(* whitespace-only strings: every item yields a result and the call        *)
(* returns the results plus a summary.                                     *)
(***************************************************************************)
C11_BatchBackTranslateNeverRaises ==
    call.op = "batch_back_translate" =>
        /\ "raised" \notin DOMAIN result
        /\ DOMAIN result = {"results", "summary"}
        /\ Len(result.results) = Len(call.texts)

(***************************************************************************)
(* C12: for every list of texts and direction, translate_batch returns a   *)
(* sequence of the same length as the input whose i-th element is the      *)
(* result of translate_single on the i-th text; the empty list gives the   *)
(* empty sequence.                                                         *)
(***************************************************************************)
C12_TranslateBatchMapsInOrder ==
    call.op = "translate_batch" =>
        /\ Len(result.results) = Len(call.texts)
        /\ \A i \in 1..Len(call.texts) :
              /\ result.results[i].original = call.texts[i]
              /\ result.results[i] = translate_single(call.texts[i], call.direction)
        /\ call.texts = <<>> => result.results = <<>>

\* three texts, a blank one between two different non-blank ones
C12_Witness ==
    /\ call.op = "translate_batch"
    /\ Len(call.texts) = 3
    /\ ~ClaimBlank(call.texts[1]) /\ ClaimBlank(call.texts[2]) /\ ~ClaimBlank(call.texts[3])
    /\ result.results[1].translated # result.results[3].translated
    /\ Len(result.results) = 3

(***************************************************************************)
(* Vocabulary of the batch summary.                                        *)
(***************************************************************************)
ClaimLevels == {"Excellent", "Good", "Fair", "Poor"}

ClaimScoreSum(results) ==
    LET Sum[k \in 0..Len(results)] ==
            IF k = 0 THEN 0 ELSE Sum[k - 1] + results[k].overall_quality.overall_score
    IN  Sum[Len(results)]

ClaimCountByLevel(results, level) ==
    Cardinality({i \in DOMAIN results : results[i].overall_quality.quality_level = level})

ClaimDistributionCounts(summary, results) ==
    /\ DOMAIN summary.quality_distribution = ClaimLevels
    /\ \A level \in ClaimLevels :
          summary.quality_distribution[level] = ClaimCountByLevel(results, level)
    /\ summary.quality_distribution["Excellent"] + summary.quality_distribution["Good"]
         + summary.quality_distribution["Fair"] + summary.quality_distribution["Poor"]
         = summary.total_texts

ClaimBatchReturned == call.op = "batch_back_translate" /\ "summary" \in DOMAIN result

(***************************************************************************)
(* C14 as stated: whenever batch_back_translate returns, total_texts is    *)
(* the number of inputs, average_quality_score is the mean of the          *)
(* per-result overall_score (0 for the empty list), and the distribution   *)
(* holds all four levels with the count of results of each level, the      *)
(* four counts summing to total_texts.                                     *)
(***************************************************************************)
C14_AverageIsExactMean ==
    ClaimBatchReturned =>
        /\ result.summary.total_texts = Len(call.texts)
        /\ result.summary.average_quality_score * Len(call.texts)
             = ClaimScoreSum(result.results)
        /\ call.texts = <<>> => result.summary.average_quality_score = 0
        /\ ClaimDistributionCounts(result.summary, result.results)

(***************************************************************************)
(* C14 amended: whenever batch_back_translate returns, total_texts is the  *)
(* number of inputs, average_quality_score is the mean of the per-result   *)
(* overall_score rounded to two decimals (0 for the empty list), and the   *)
(* distribution holds all four levels with the count of results of each    *)
(* level, the four counts summing to total_texts.                          *)
(***************************************************************************)
C14_AverageIsRoundedMean ==
    ClaimBatchReturned =>
        /\ result.summary.total_texts = Len(call.texts)
        /\ LET n == Len(call.texts)
               avg == result.summary.average_quality_score
               total == ClaimScoreSum(result.results)
           IN  /\ 2 * (avg * n - total) <= n
               /\ 2 * (total - avg * n) <= n
        /\ call.texts = <<>> => result.summary.average_quality_score = 0
        /\ ClaimDistributionCounts(result.summary, result.results)

\* three results of two levels whose scores do not add up to a multiple of three
C14_Witness ==
    /\ ClaimBatchReturned
    /\ Len(call.texts) = 3
    /\ ClaimScoreSum(result.results) % 3 = 2
    /\ Cardinality({result.results[i].overall_quality.quality_level : i \in 1..3}) = 2
    /\ C14_AverageIsRoundedMean

(***************************************************************************)
(* C15: auto_detect_language returns 'unknown' for an empty or             *)
(* whitespace-only text; otherwise, with E the number of lower-cased       *)
(* tokens that are keys of the forward mapping and I the number that are   *)
(* keys of the inverse mapping, it returns 'english' iff E > I, 'igala'    *)
(* iff I > E and 'unknown' iff E = I.                                      *)
(***************************************************************************)
ClaimEnglishHits(text) == ClaimFound(text, "en_to_ig")

ClaimIgalaHits(text) == ClaimFound(text, "ig_to_en")

C15_DetectComparesHits ==
    call.op = "auto_detect_language" =>
        LET E == ClaimEnglishHits(call.text)
            I == ClaimIgalaHits(call.text)
            detected == result.detected_language
        IN  IF ClaimBlank(call.text) THEN detected = "unknown"
            ELSE /\ detected \in {"english", "igala", "unknown"}
                 /\ detected = "english" <=> E > I
                 /\ detected = "igala" <=> I > E
                 /\ detected = "unknown" <=> E = I

\* a text whose tokens hit both mappings equally often, at least once
C15_Witness ==
    /\ call.op = "auto_detect_language"
    /\ ~ClaimBlank(call.text)
    /\ ClaimEnglishHits(call.text) = ClaimIgalaHits(call.text)
    /\ ClaimEnglishHits(call.text) > 0
    /\ result.detected_language = "unknown"

(***************************************************************************)
(* Vocabulary of the suggestions: the order of strings by code point.      *)
(***************************************************************************)
ClaimCode(c) ==
    CASE c = "\t" -> 9 [] c = " " -> 32 [] c = "A" -> 65 [] c = "B" -> 66
      [] c = "N" -> 78 [] c = "a" -> 97 [] c = "b" -> 98 [] c = "n" -> 110

ClaimIsPrefix(p, s) == Len(p) <= Len(s) /\ \A i \in 1..Len(p) : s[i] = p[i]

\* a comes strictly before b
ClaimBefore(a, b) ==
    \/ a # b /\ ClaimIsPrefix(a, b)
    \/ \E i \in 1..Len(a) :
          /\ i <= Len(b)
          /\ \A j \in 1..(i - 1) : a[j] = b[j]
          /\ ClaimCode(a[i]) < ClaimCode(b[i])

ClaimSelectedKeys(language) ==
    LET d == IF language = "english" THEN english_to_igala ELSE igala_to_english
    IN  {d[n][1] : n \in DOMAIN d}

ClaimMatchingKeys(partial, language) ==
    {k \in ClaimSelectedKeys(language) : ClaimIsPrefix(ClaimLower(partial), ClaimLower(k))}

(***************************************************************************)
(* C16: get_word_suggestions returns exactly the keys of the selected      *)
(* mapping whose lower-cased form starts with the lower-cased partial,     *)
(* sorted ascending and truncated to the first `limit` entries, so the     *)
(* result never has more than `limit` entries.                             *)
(***************************************************************************)
C16_SuggestionsArePrefixMatches ==
    call.op = "get_word_suggestions" =>
        LET matching == ClaimMatchingKeys(call.partial_word, call.language)
            res == result.suggestions
            returned == {res[i] : i \in DOMAIN res}
        IN  /\ returned \subseteq matching
            /\ \A i, j \in DOMAIN res : i < j => ClaimBefore(res[i], res[j])
            /\ \A k \in matching \ returned : \A i \in DOMAIN res : ClaimBefore(res[i], k)
            /\ Len(res) <= call.limit
            /\ Cardinality(matching) <= call.limit => returned = matching
            /\ Cardinality(matching) > call.limit => Len(res) = call.limit

(***************************************************************************)
(* Vocabulary of the batch translation request.                            *)
(***************************************************************************)
ClaimBatchOfList == call.op = "/translate/batch" /\ call.texts.type = "list"

ClaimConfidenceSum(results) ==
    LET Sum[k \in 0..Len(results)] ==
            IF k = 0 THEN 0 ELSE Sum[k - 1] + results[k].confidence
    IN  Sum[Len(results)]

\* avg is the arithmetic mean of the confidences of the results
ClaimIsMeanConfidence(avg, results) ==
    /\ avg.den > 0
    /\ avg.num * Len(results) = ClaimConfidenceSum(results) * avg.den

(***************************************************************************)
(* C13: for every list of texts submitted as a batch translation the       *)
(* reported average confidence is the arithmetic mean of                   *)
(* the per-item confidences, and the empty list yields an average of 0     *)
(* with zero results and no error outcome.                                 *)
(***************************************************************************)
C13_BatchMeanIncludingEmpty ==
    ClaimBatchOfList =>
        /\ result.status = 200
        /\ "error" \notin DOMAIN result.body
        /\ Len(result.body.results) = Len(call.texts.value)
        /\ IF call.texts.value = <<>>
           THEN result.body.average_confidence.num = 0
           ELSE ClaimIsMeanConfidence(result.body.average_confidence, result.body.results)

(***************************************************************************)
(* C17: a suggestion lookup with an empty partial word yields an empty     *)
(* suggestion list, never the whole vocabulary, for every language and     *)
(* limit.                                                                  *)
(***************************************************************************)
C17_EmptyPartialYieldsNothing ==
    (call.op = "/suggestions" /\ call.partial_word = <<>>) =>
        /\ result.status = 200
        /\ result.body.suggestions = <<>>

\* an empty partial word, a vocabulary that is not empty and a positive limit
C17_Witness ==
    /\ call.op = "/suggestions"
    /\ call.partial_word = <<>>
    /\ call.limit > 0
    /\ ClaimSelectedKeys(call.language) # {}
    /\ result.body.suggestions = <<>>

(***************************************************************************)
(* Vocabulary of the dictionary construction: the raw pairs of the corpus  *)
(* file and their normal forms.                                            *)
(***************************************************************************)
\* get_model() has bound an object: the dictionaries are those of that object
ClaimConstructed == _model_instance # None

ClaimMissing(cell) == cell = NaN

ClaimTrim(s) ==
    LET solid == {i \in 1..Len(s) : ~ClaimIsSpace(s[i])}
    IN  IF solid = {} THEN <<>>
        ELSE [i \in 1..(SetMax(solid) - SetMin(solid) + 1) |-> s[SetMin(solid) + i - 1]]

\* a cell as text: a missing cell reads 'nan'
ClaimText(cell) == IF ClaimMissing(cell) THEN <<"n", "a", "n">> ELSE cell

ClaimEnglishOf(row) == ClaimLower(ClaimTrim(ClaimText(row.English)))

ClaimIgalaOf(row) == ClaimTrim(ClaimText(row.Igala))

\* both sides of the raw pair are present and not empty after trimming
ClaimSound(row) ==
    /\ ~ClaimMissing(row.English) /\ ClaimTrim(row.English) # <<>>
    /\ ~ClaimMissing(row.Igala) /\ ClaimTrim(row.Igala) # <<>>

ClaimEntries(d) == {d[n] : n \in DOMAIN d}

ClaimUniqueKeys(d) == \A m, n \in DOMAIN d : d[m][1] = d[n][1] => m = n

(***************************************************************************)
(* C18: after dictionary construction from any sequence of raw pairs, no   *)
(* pair with a missing side or a side that is empty after trimming         *)
(* contributes to the mappings: neither mapping has an empty-string key or *)
(* value, nor a key or value that stands for a missing cell.               *)
(***************************************************************************)
C18_NoEmptyOrMissingEntries ==
    ClaimConstructed =>
        /\ \A e \in ClaimEntries(english_to_igala) :
              /\ e[1] # <<>> /\ e[2] # <<>>
              /\ \E n \in DOMAIN csv :
                    /\ ClaimSound(csv[n])
                    /\ e = <<ClaimEnglishOf(csv[n]), ClaimIgalaOf(csv[n])>>
        /\ \A e \in ClaimEntries(igala_to_english) :
              /\ e[1] # <<>> /\ e[2] # <<>>
              /\ \E n \in DOMAIN csv :
                    /\ ClaimSound(csv[n])
                    /\ e = <<ClaimIgalaOf(csv[n]), ClaimEnglishOf(csv[n])>>

(***************************************************************************)
(* C19 as stated: for any sequence of raw pairs the forward mapping has    *)
(* exactly one value per normalized English key, and that value is the     *)
(* Igala side of the last pair in input order with that English key.       *)
(***************************************************************************)
C19_LastRawPairWins ==
    ClaimConstructed =>
        /\ ClaimUniqueKeys(english_to_igala)
        /\ \A e \in ClaimEntries(english_to_igala) :
              LET with_key == {n \in DOMAIN csv : ClaimEnglishOf(csv[n]) = e[1]}
              IN  /\ with_key # {}
                  /\ e[2] = ClaimIgalaOf(csv[SetMax(with_key)])

\* the normal form of a whole row
ClaimNormalRow(row) == <<ClaimEnglishOf(row), ClaimIgalaOf(row), row.POS>>

\* the rows that preprocessing keeps: no missing cell in another column, and
\* not an exact repetition of an earlier such row
ClaimKeptRows ==
    {n \in DOMAIN csv :
        /\ ~ClaimMissing(csv[n].POS)
        /\ \A m \in 1..(n - 1) :
              ClaimMissing(csv[m].POS) \/ ClaimNormalRow(csv[m]) # ClaimNormalRow(csv[n])}

(***************************************************************************)
(* C19 amended: for any sequence of raw rows the forward mapping has       *)
(* exactly one value per normalized English key, its keys are the          *)
(* normalized English sides of the rows that preprocessing keeps (rows     *)
(* with a missing cell in another column dropped, of exactly repeated      *)
(* normalized rows only the first kept), and the value of a key is the     *)
(* Igala side of the last kept row with that key.                          *)
(***************************************************************************)
C19_LastKeptRowWins ==
    ClaimConstructed =>
        /\ ClaimUniqueKeys(english_to_igala)
        /\ {e[1] : e \in ClaimEntries(english_to_igala)}
             = {ClaimEnglishOf(csv[n]) : n \in ClaimKeptRows}
        /\ \A e \in ClaimEntries(english_to_igala) :
              LET with_key == {n \in ClaimKeptRows : ClaimEnglishOf(csv[n]) = e[1]}
              IN  e[2] = ClaimIgalaOf(csv[SetMax(with_key)])

\* a key whose last raw pair repeats its first one, with another value between
C19_Witness ==
    /\ ClaimConstructed
    /\ Len(csv) = 3
    /\ ClaimNormalRow(csv[1]) = ClaimNormalRow(csv[3])
    /\ ClaimEnglishOf(csv[1]) = ClaimEnglishOf(csv[2])
    /\ ClaimIgalaOf(csv[1]) # ClaimIgalaOf(csv[2])
    /\ ClaimKeptRows = {1, 2}
    /\ english_to_igala = << <<ClaimEnglishOf(csv[2]), ClaimIgalaOf(csv[2])>> >>

(***************************************************************************)
(* C20: the inverse mapping is derived from the forward mapping: its key   *)
(* set is the value set of the forward mapping, every entry v -> k of it   *)
(* has forward[k] = v, and when several English keys map to the same Igala *)
(* word the inverse keeps the one that comes last in the forward           *)
(* mapping's iteration order.                                              *)
(***************************************************************************)
C20_InverseOfForward ==
    ClaimConstructed =>
        /\ ClaimUniqueKeys(igala_to_english)
        /\ {e[1] : e \in ClaimEntries(igala_to_english)}
             = {e[2] : e \in ClaimEntries(english_to_igala)}
        /\ \A e \in ClaimEntries(igala_to_english) :
              /\ <<e[2], e[1]>> \in ClaimEntries(english_to_igala)
              /\ LET sharing == {n \in DOMAIN english_to_igala : english_to_igala[n][2] = e[1]}
                 IN  e[2] = english_to_igala[SetMax(sharing)][1]

\* two English keys share an Igala word and a third has its own
C20_Witness ==
    /\ ClaimConstructed
    /\ Len(english_to_igala) = 3
    /\ Len(igala_to_english) = 2
    /\ \E m, n \in DOMAIN english_to_igala :
          /\ m < n
          /\ english_to_igala[m][2] = english_to_igala[n][2]
          /\ <<english_to_igala[n][2], english_to_igala[n][1]>> \in ClaimEntries(igala_to_english)

(***************************************************************************)
(* C23: after construction, every sequence of calls to translate_single,   *)
(* translate_batch, back_translate, batch_back_translate,                  *)
(* auto_detect_language, get_word_suggestions and                          *)
(* calculate_back_translation_score leaves the forward and the inverse     *)
(* mapping unchanged.                                                      *)
(***************************************************************************)
C23_MappingsAreReadOnly ==
    [][/\ english_to_igala' = english_to_igala
       /\ igala_to_english' = igala_to_english]_vars

\* a call on a text with a word that neither mapping knows has been made and
\* the mappings are still the ones construction built from the corpus
C23_Witness ==
    /\ call.op = "translate_single"
    /\ ClaimFound(call.text, call.direction) < Len(ClaimTokens(call.text))
    /\ english_to_igala # <<>>
    /\ english_to_igala = build_english_to_igala(_preprocess_data(csv))
    /\ igala_to_english = build_igala_to_english(english_to_igala)

(***************************************************************************)
(* Vocabulary of the untranslatable text: no lower-cased token is a key of *)
(* the forward or of the inverse mapping.                                  *)
(***************************************************************************)
ClaimNoHits(text) == ClaimFound(text, "en_to_ig") = 0 /\ ClaimFound(text, "ig_to_en") = 0

(***************************************************************************)
(* C24 as stated: for every non-empty text with zero dictionary hits,      *)
(* back_translate yields forward_translation = back_translation = the      *)
(* original text unchanged, forward_confidence = back_confidence = 0.0     *)
(* and similarity_score = 100.0.                                           *)
(***************************************************************************)
C24_UntranslatableComesBackUnchanged ==
    (call.op = "back_translate" /\ call.text # <<>> /\ ClaimNoHits(call.text)) =>
        /\ result.forward_translation = call.text
        /\ result.back_translation = call.text
        /\ result.forward_confidence = 0
        /\ result.back_confidence = 0
        /\ result.quality_metrics.similarity_score = 10000

(***************************************************************************)
(* C24 amended: for every text that holds at least one token and has zero  *)
(* hits in both mappings, back_translate yields forward_translation =      *)
(* back_translation = the lower-cased tokens of the text joined by single  *)
(* spaces, forward_confidence = back_confidence = 0.0 and                  *)
(* similarity_score = 100.0.                                               *)
(***************************************************************************)
C24_UntranslatableComesBackNormalized ==
    (call.op = "back_translate" /\ ~ClaimBlank(call.text) /\ ClaimNoHits(call.text)) =>
        /\ ClaimIsJoined(result.forward_translation, ClaimTokens(ClaimLower(call.text)))
        /\ result.back_translation = result.forward_translation
        /\ result.forward_confidence = 0
        /\ result.back_confidence = 0
        /\ result.quality_metrics.similarity_score = 10000

\* mappings that are not empty and a text with a capital letter or padding
\* that neither of them covers
C24_Witness ==
    /\ call.op = "back_translate"
    /\ english_to_igala # <<>>
    /\ ~ClaimBlank(call.text)
    /\ ClaimNoHits(call.text)
    /\ result.forward_translation # call.text
    /\ result.back_translation = result.forward_translation
    /\ result.quality_metrics.similarity_score = 10000

(***************************************************************************)
(* C25: every entry of the inverse mapping is reachable by reverse         *)
(* translation: for every key k of the inverse mapping that is a single    *)
(* whitespace-free token, translate_single(k, 'ig_to_en') returns          *)
(* translated = inverse[k] with confidence 100, and auto_detect_language   *)
(* counts k as an Igala hit, so it never answers 'english' for k.          *)
(***************************************************************************)
ClaimSingleTokenKey(text) ==
    /\ text # <<>>
    /\ \A i \in 1..Len(text) : ~ClaimIsSpace(text[i])
    /\ ClaimIsKey(igala_to_english, text)

C25_InverseEntriesAreReachable ==
    /\ (call.op = "translate_single" /\ call.direction = "ig_to_en"
          /\ ClaimSingleTokenKey(call.text)) =>
           /\ result.translated = ClaimValue(igala_to_english, call.text)
           /\ result.confidence = 10000
    /\ (call.op = "auto_detect_language" /\ ClaimSingleTokenKey(call.text)) =>
           result.detected_language # "english"

(***************************************************************************)
(* C26: in every result of _assess_translation_quality the recommendation  *)
(* 'Overall quality is below acceptable threshold - manual review          *)
(* recommended' is present if and only if the quality level is Fair or     *)
(* Poor; a result with level Good or Excellent never carries it.           *)
(***************************************************************************)
ClaimHasReviewMessage(recs) == \E n \in DOMAIN recs : recs[n] = ClaimMessages[4]

C26_ReviewMessageFollowsLevel ==
    call.op = "_assess_translation_quality" =>
        (ClaimHasReviewMessage(result.recommendations)
            <=> result.quality_level \in {"Fair", "Poor"})

\* a sum just below 60 that is returned as 60.0: the level is Fair and the
\* message is present
C26_Witness ==
    /\ call.op = "_assess_translation_quality"
    /\ result.overall_score = 6000
    /\ result.quality_level = "Fair"
    /\ ClaimHasReviewMessage(result.recommendations)

(***************************************************************************)
(* C27: the /translation-quality endpoint, which assesses a provided       *)
(* translation with the forward confidence fixed at 100, never reports     *)
(* quality level Poor: its overall_score is at least 40, so the level is   *)
(* Fair, Good or Excellent.                                                *)
(***************************************************************************)
C27_ProvidedTranslationIsNeverPoor ==
    (call.op = "/translation-quality" /\ "overall_quality" \in DOMAIN result.body) =>
        /\ result.body.overall_quality.overall_score >= 4000
        /\ result.body.overall_quality.quality_level \in {"Fair", "Good", "Excellent"}

\* a provided translation that no word of the mapping covers and that shares
\* no word with the original: the score is exactly 40
C27_Witness ==
    /\ call.op = "/translation-quality"
    /\ result.status = 200
    /\ english_to_igala # <<>>
    /\ result.body.back_confidence = 0
    /\ result.body.quality_metrics.similarity_score = 0
    /\ result.body.overall_quality.overall_score = 4000
    /\ result.body.overall_quality.quality_level = "Fair"

(***************************************************************************)
(* Vocabulary of the translation history: the results a response returns   *)
(* and the row that records a result.                                      *)
(***************************************************************************)
ClaimHistoryOps == {"/translate", "/translate/batch", "/back-translate", "/back-translate/batch"}

\* the results returned by a successful response, in the order of the inputs
ClaimReturned(request, response) ==
    IF request.op \notin ClaimHistoryOps \/ response.status # 200 THEN <<>>
    ELSE IF request.op \in {"/translate", "/back-translate"} THEN <<response.body>>
    ELSE response.body.results

ClaimEndsWith(s, tail) ==
    Len(tail) <= Len(s) /\ \A i \in 1..Len(tail) : s[Len(s) - Len(tail) + i] = tail[i]

\* row records the returned result r of the request
ClaimRecords(row, r, request) ==
    /\ row.user_id = request.user_id
    /\ row.session_id = request.session_id
    /\ IF "original" \in DOMAIN r
       THEN /\ row.original_text = r.original
            /\ row.translated_text = r.translated
            /\ row.direction = r.direction
            /\ row.confidence = r.confidence
       ELSE /\ ClaimEndsWith(row.original_text, r.original_text)
            /\ ClaimEndsWith(row.translated_text, r.back_translation)
            /\ row.confidence = r.overall_quality.overall_score

RECURSIVE ClaimHolds(_, _, _)
\* the rows hold, in this order and possibly with other rows in between, one
\* row for each of the returned results of the request
ClaimHolds(rows, returned, request) ==
    IF returned = <<>> THEN TRUE
    ELSE IF rows = <<>> THEN FALSE
    ELSE IF ClaimRecords(rows[1], returned[1], request)
    THEN ClaimHolds(Tail(rows), Tail(returned), request)
    ELSE ClaimHolds(Tail(rows), returned, request)

\* the rows hold the rows of the returned results next to one another
ClaimHoldsAdjacent(rows, returned, request) ==
    \E p \in 0..(Len(rows) - Len(returned)) :
        \A i \in 1..Len(returned) : ClaimRecords(rows[p + i], returned[i], request)

\* the rows that have entered the history since the request of thread t
\* arrived
ClaimSinceArrival(t) == SubSeq(history, threads[t].first + 1, Len(history))

\* in this step a request is answered
ClaimResponds == call = Idle /\ call' # Idle

\* in this step thread t answers the request it has served
ClaimAnswers(t) ==
    /\ threads[t].request = call'
    /\ threads[t].response = result'
    /\ threads'[t].request = Idle
    /\ \A u \in Threads \ {t} : threads'[u] = threads[u]

\* in this step the handler on thread t inserts the row of its next result
\* at the end of the history
ClaimInserts(t) ==
    LET returned == ClaimReturned(threads[t].request, threads[t].response)
        saved == threads[t].saved
    IN  /\ threads[t].request # Idle
        /\ saved < Len(returned)
        /\ Len(history') = Len(history) + 1
        /\ ClaimRecords(history'[Len(history')], returned[saved + 1], threads[t].request)

\* in this step the handler on thread t goes on to its next result, and
\* nothing happens to the other handlers
ClaimGoesOn(t) ==
    /\ threads'[t] = [threads[t] EXCEPT !.saved = @ + 1]
    /\ \A u \in Threads \ {t} : threads'[u] = threads[u]

\* in this step a request arrives at thread t, which has inserted no row yet
ClaimArrives(t) ==
    /\ threads[t].request = Idle
    /\ threads'[t].request # Idle
    /\ threads'[t].saved = 0
    /\ threads'[t].first = Len(history)
    /\ \A u \in Threads \ {t} : threads'[u] = threads[u]

\* what holds of a step whatever the requests and however they overlap:
\* rows are never modified or removed; a row enters the history only as the
\* row of the next result of a request being served; a request is answered
\* with results only when the row of each of them has entered the history
\* since the request arrived, the answer itself leaving the history as it
\* is, and with an error only when the request has inserted no row.  'holds'
\* says how the rows of the answered request lie in the history.
ClaimHistoryStep(holds(_, _, _)) ==
    /\ SubSeq(history', 1, Len(history)) = history
    /\ ClaimResponds =>
           \/ /\ history' = history
              /\ threads' = threads
              /\ ClaimReturned(call', result') = <<>>
           \/ \E t \in Threads :
                  /\ ClaimAnswers(t)
                  /\ history' = history
                  /\ threads[t].saved = Len(ClaimReturned(call', result'))
                  /\ holds(ClaimSinceArrival(t), ClaimReturned(call', result'), call')
    /\ ~ClaimResponds =>
           \/ history' = history /\ threads' = threads
           \/ history' = history /\ \E t \in Threads : ClaimArrives(t)
           \/ \E t \in Threads : ClaimInserts(t) /\ ClaimGoesOn(t)

(***************************************************************************)
(* C28: after any sequence of requests to POST /translate,                 *)
(* /translate/batch, /back-translate and /back-translate/batch the history *)
(* holds exactly one row per result returned in a successful (200)         *)
(* response, appended in request order and in input order within a batch:  *)
(* when a request is answered, the rows of its results lie next to one     *)
(* another in the history, in the order of the inputs; a request answered  *)
(* with an error appends no row, and rows are never modified or removed.   *)
(***************************************************************************)
C28_RowsAreAppendedInRequestOrder == [][ClaimHistoryStep(ClaimHoldsAdjacent)]_vars

(***************************************************************************)
(* C28 amended: when a request is answered 200, the history holds one row  *)
(* per returned result, each with the user and the session of the request, *)
(* inserted since the request arrived and in the order of the inputs; when *)
(* no other request inserted a row meanwhile these rows end the history,   *)
(* so requests served one after another are recorded in request order,     *)
(* while the rows of requests served at the same time may alternate; a     *)
(* request answered with an error appends no row, and rows are never       *)
(* modified or removed.                                                    *)
(***************************************************************************)
C28_HistoryRecordsReturnedResults == [][ClaimHistoryStep(ClaimHolds)]_vars

\* a batch of two has been answered 200: the rows of its two results are in
\* the history, with a row of another client's request between them
C28_Witness ==
    /\ call.op \in {"/translate/batch", "/back-translate/batch"}
    /\ result.status = 200
    /\ Len(result.body.results) = 2
    /\ Len(history) = 3
    /\ ClaimRecords(history[1], result.body.results[1], call)
    /\ ClaimRecords(history[3], result.body.results[2], call)
    /\ history[2].user_id # call.user_id

(***************************************************************************)
(* Concurrent callers of get_model().                                      *)
(***************************************************************************)
\* the instances the callers of get_model() have received so far
ClaimReceived == {threads[t].returned : t \in Threads} \ {None}

\* C21: under any interleaving of concurrent first callers of get_model(),
\* the TranslationModel is constructed at most once per process, and all
\* callers receive the same instance.
C21_ConstructedOnceAndShared ==
    /\ Len(objects) <= 1
    /\ Cardinality(ClaimReceived) <= 1

\* C22: under any interleaving of concurrent callers of get_model(), the
\* global never names, and no caller ever obtains, a model whose
\* preprocessing or dictionary construction has not completed: the instance
\* becomes visible only once it is the fully built model of the file.
C22_ObtainedModelIsConstructed ==
    /\ _model_instance # None =>
           /\ constructed(objects[_model_instance])
           /\ objects[_model_instance] = TranslationModel(csv)
    /\ \A id \in ClaimReceived :
           /\ constructed(objects[id])
           /\ objects[id] = TranslationModel(csv)

\* a caller has received the instance while another thread is in the middle
\* of constructing an object of its own
C22_Witness ==
    \E t, u \in Threads :
        /\ threads[t].returned # None
        /\ threads[u].pc \in {"_preprocess_data", "english_to_igala", "igala_to_english"}
        /\ ~constructed(objects[threads[u].self])

====
